---- MODULE Spec2Model ----
(***************************************************************************)
(* A model of the WhatsApp webhook service: the signature verifier         *)
(* (utils/webhook.ts), the two /webhook routes (index.ts) and the          *)
(* per-tenant message pipeline (services/webhook-handler.ts).              *)
(*                                                                         *)
(* The tables are those of schema.ts: a statement PostgreSQL rejects for   *)
(* the declared column types throws.                                       *)
(*                                                                         *)
(* The specifications of the module:                                       *)
(*   SpecSig     verifyWebhookSignature as a pure function                 *)
(*   SpecVerify  GET /webhook, the subscription handshake                  *)
(*   Spec        POST /webhook and the background task it starts           *)
(*   SpecTyped   Spec on unsigned deliveries of one change for pn1         *)
(*   SpecTypes   Spec on messages of every type                            *)
(*   SpecConv    Spec on a store that holds a conversation                 *)
(*   SpecStatus  Spec on delivery-status events for stored rows            *)
(*   SpecTwo     Spec with a second delivery behind a send that hangs      *)
(*   SpecRace    Spec with two deliveries racing on one contact            *)
(***************************************************************************)
EXTENDS Integers, Sequences, FiniteSets, TLC

VARIABLES
    sigIn,      \* SpecSig: the arguments of one verifyWebhookSignature call
    sigOut,     \* SpecSig: what the call did ("pending" before it ran)
    accounts,   \* the whatsapp_accounts table, in row order
    dbUrl,      \* whether DATABASE_URL is set (getDbClient yields a pool)
    envTokens,  \* WHATSAPP_VERIFY_TOKEN and WEBHOOK_VERIFY_TOKEN
    getReq,     \* SpecVerify: the query of each GET /webhook
    getResp,    \* SpecVerify: its response ("pending" before it ran)
    chatbots,   \* the chatbot table: rows [id, api_key]
    contacts,   \* the whatsapp_contacts table, in insertion order
    messages,   \* the messages table, in insertion order
    clock,      \* the time NOW() and Date.now() read
    deliveries, \* the ids of the POST /webhook requests of this run
    postReq,    \* per delivery: the request (header, secret read, body)
    postResp,   \* per delivery: the HTTP response sent (status 0: none yet)
    task,       \* per delivery: the handleWebhookMessage call it started
    effects,    \* every query, gateway call and dispatch made, in order
    gatewayCalls, \* the bodies POSTed to the Response Gateway, in order
    dispatches, \* the texts POSTed to the provider's send API, in order
    faults      \* collaborator failures injected so far

sigVars == <<sigIn, sigOut>>
getVars == <<getReq, getResp, envTokens>>
storeVars == <<chatbots, contacts, messages, clock>>
postVars == <<deliveries, postReq, postResp, task, effects, gatewayCalls,
              dispatches, faults>>
vars == <<sigIn, sigOut, accounts, dbUrl, envTokens, getReq, getResp,
          chatbots, contacts, messages, clock, deliveries, postReq, postResp,
          task, effects, gatewayCalls, dispatches, faults>>

\* A value JavaScript reads as undefined (an absent header, query parameter,
\* environment variable or SQL NULL column).
Undefined == "<undefined>"

\* JavaScript truthiness of an optional string.
Truthy(s) == s # Undefined /\ s # ""

RECURSIVE SeqSum(_)
SeqSum(s) == IF s = <<>> THEN 0 ELSE Head(s) + SeqSum(Tail(s))

\* The sequences of ss behind one another (joined half by half).
RECURSIVE FlattenRange(_, _, _)
FlattenRange(ss, lo, hi) ==
    IF lo > hi THEN <<>>
    ELSE IF lo = hi THEN ss[lo]
    ELSE LET mid == (lo + hi) \div 2 IN
         FlattenRange(ss, lo, mid) \o FlattenRange(ss, mid + 1, hi)

Flatten(ss) == FlattenRange(ss, 1, Len(ss))

(***************************************************************************)
(* Signature Verifier                                                      *)
(***************************************************************************)

\* Strings are sequences of characters (UTF-16 code units).  A character is
\* written as itself; one that cannot be written in a string of the model is
\* named by its code point, "<U+0008>", with four upper-case hex digits.
\* E_ACUTE is U+00E9.
E_ACUTE == "e'"

\* The printable ASCII characters: U+0020..U+005F and U+0061..U+007E (the
\* grave accent U+0060 is written by its code point).
AsciiLow == " !\"#$%&'()*+,-./0123456789:;<=>?@ABCDEFGHIJKLMNOPQRSTUVWXYZ[\\]^_"
AsciiHigh == "abcdefghijklmnopqrstuvwxyz{|}~"

\* The characters of a string of the model.
Chars(s) == [i \in 1..Len(s) |-> SubSeq(s, i, i)]

\* The place of character c in text, 0 when it is not there.
IndexOf(c, text) ==
    IF \E i \in 1..Len(text) : SubSeq(text, i, i) = c
    THEN CHOOSE i \in 1..Len(text) : SubSeq(text, i, i) = c
    ELSE 0

HexValue(d) == IndexOf(d, "0123456789ABCDEF") - 1

\* The code unit of a character.
CodePoint(c) ==
    CASE c = E_ACUTE -> 233
      [] c = "\t" -> 9
      [] c = "\n" -> 10
      [] c = "\f" -> 12
      [] c = "\r" -> 13
      [] Len(c) = 8 ->
            HexValue(SubSeq(c, 4, 4)) * 4096 + HexValue(SubSeq(c, 5, 5)) * 256
            + HexValue(SubSeq(c, 6, 6)) * 16 + HexValue(SubSeq(c, 7, 7))
      [] IndexOf(c, AsciiHigh) > 0 -> 96 + IndexOf(c, AsciiHigh)
      [] OTHER -> 31 + IndexOf(c, AsciiLow)

\* The code units of a string.
CodePoints(str) == [i \in 1..Len(str) |-> CodePoint(str[i])]

HighSurrogate(n) == n \in 55296..56319
LowSurrogate(n) == n \in 56320..57343

\* The UTF-8 bytes of one code point; a surrogate on its own is encoded as
\* the replacement character U+FFFD.
Utf8Bytes(n) ==
    IF n < 128 THEN <<n>>
    ELSE IF n < 2048 THEN <<192 + (n \div 64), 128 + (n % 64)>>
    ELSE IF n \in 55296..57343 THEN <<239, 191, 189>>
    ELSE IF n < 65536
    THEN <<224 + (n \div 4096), 128 + ((n \div 64) % 64), 128 + (n % 64)>>
    ELSE <<240 + (n \div 262144), 128 + ((n \div 4096) % 64),
           128 + ((n \div 64) % 64), 128 + (n % 64)>>

\* The UTF-8 bytes of one character.
Utf8Char(c) == Utf8Bytes(CodePoint(c))

\* Code unit i of cp is the low half of a surrogate pair.
PairedLow(cp, i) ==
    i > 1 /\ LowSurrogate(cp[i]) /\ HighSurrogate(cp[i - 1])

\* Code unit i of cp is the high half of a surrogate pair.
PairedHigh(cp, i) ==
    i < Len(cp) /\ HighSurrogate(cp[i]) /\ LowSurrogate(cp[i + 1])

\* The UTF-8 encoding of a sequence of code units; a high surrogate followed
\* by a low one is one code point of four bytes.
Utf8(cp) ==
    Flatten([i \in 1..Len(cp) |->
        IF PairedHigh(cp, i)
        THEN Utf8Bytes(65536 + (cp[i] - 55296) * 1024 + (cp[i + 1] - 56320))
        ELSE IF PairedLow(cp, i) THEN <<>>
        ELSE Utf8Bytes(cp[i])])

\* Buffer.from(string): the UTF-8 encoding of the string.
BufferFrom(str) == Utf8(CodePoints(str))

\* The length of digest('hex') for sha256: 32 bytes, two hex digits each.
DigestHexLen == 64

(* SHA-256 (FIPS 180-4) and HMAC (RFC 2104), as crypto.createHmac computes *)
(* them, on bytes.                                                         *)

\* A 32-bit word is the set of the positions of its one bits (0 is the least
\* significant).

\* The word with high half hi and low half lo (each below 65536).
Word(hi, lo) ==
    { i \in 0..31 : IF i < 16 THEN (lo \div (2 ^ i)) % 2 = 1
                              ELSE (hi \div (2 ^ (i - 16))) % 2 = 1 }

\* The big-endian word of four bytes.
WordOfBytes(b) ==
    { i \in 0..31 : (b[4 - i \div 8] \div (2 ^ (i % 8))) % 2 = 1 }

Xor(a, b) == { i \in a \cup b : i \notin a \cap b }
RotR(a, n) == { (i + 32 - n) % 32 : i \in a }
ShR(a, n) == { i - n : i \in { j \in a : j >= n } }

\* The byte of a word whose least significant bit is at position low.
Bit(w, i, value) == IF i \in w THEN value ELSE 0
Byte(w, low) ==
    ((Bit(w, low, 1) + Bit(w, low + 1, 2))
        + (Bit(w, low + 2, 4) + Bit(w, low + 3, 8)))
    + ((Bit(w, low + 4, 16) + Bit(w, low + 5, 32))
        + (Bit(w, low + 6, 64) + Bit(w, low + 7, 128)))

\* The four bytes of a word, the most significant first.
WordBytes(w) == <<Byte(w, 24), Byte(w, 16), Byte(w, 8), Byte(w, 0)>>

\* Addition modulo 2^32 of the words of ws (at most 2^15 of them): the low
\* halves are added, then the high halves and the carry of the low ones.
Sum(ws) ==
    IF ws = <<>> THEN {}
    ELSE LET carry(hi, lo) == Word((hi + lo \div 65536) % 65536, lo % 65536)
         IN  carry(SeqSum([i \in 1..Len(ws) |->
                             256 * Byte(ws[i], 24) + Byte(ws[i], 16)]),
                   SeqSum([i \in 1..Len(ws) |->
                             256 * Byte(ws[i], 8) + Byte(ws[i], 0)]))

Add(a, b) == Sum(<<a, b>>)

Ch(e, f, g) == (e \cap f) \cup (g \ e)
Maj(a, b, c) == (a \cap b) \cup (a \cap c) \cup (b \cap c)
BigSigma0(a) == Xor(Xor(RotR(a, 2), RotR(a, 13)), RotR(a, 22))
BigSigma1(e) == Xor(Xor(RotR(e, 6), RotR(e, 11)), RotR(e, 25))
SmallSigma0(w) == Xor(Xor(RotR(w, 7), RotR(w, 18)), ShR(w, 3))
SmallSigma1(w) == Xor(Xor(RotR(w, 17), RotR(w, 19)), ShR(w, 10))

\* The round constants and the initial hash value of SHA-256 (FIPS 180-4),
\* each as <<high half, low half>>.
Sha256K ==
    LET k == <<
       <<17034, 12184>>, <<28983, 17553>>, <<46528, 64463>>, <<59829, 56229>>,
       <<14678, 49755>>, <<23025, 4593>>, <<37439, 33444>>, <<43804, 24277>>,
       <<55303, 43672>>, <<4739, 23297>>, <<9265, 34238>>, <<21772, 32195>>,
       <<29374, 23924>>, <<32990, 45566>>, <<39900, 1703>>, <<49563, 61812>>,
       <<58523, 27073>>, <<61374, 18310>>, <<4033, 40390>>, <<9228, 41420>>,
       <<11753, 11375>>, <<19060, 33962>>, <<23728, 43484>>, <<30457, 35034>>,
       <<38974, 20818>>, <<43057, 50797>>, <<45059, 10184>>, <<48985, 32711>>,
       <<50912, 3059>>, <<54695, 37191>>, <<1738, 25425>>, <<5161, 10599>>,
       <<10167, 2693>>, <<11803, 8504>>, <<19756, 28156>>, <<21304, 3347>>,
       <<25866, 29524>>, <<30314, 2747>>, <<33218, 51502>>, <<37490, 11397>>,
       <<41663, 59553>>, <<43034, 26187>>, <<49739, 35696>>, <<51052, 20899>>,
       <<53650, 59417>>, <<54937, 1572>>, <<62478, 13701>>, <<4202, 41072>>,
       <<6564, 49430>>, <<7735, 27656>>, <<10056, 30540>>, <<13488, 48309>>,
       <<14620, 3251>>, <<20184, 43594>>, <<23452, 51791>>, <<26670, 28659>>,
       <<29839, 33518>>, <<30885, 25455>>, <<33992, 30740>>, <<36039, 520>>,
       <<37054, 65530>>, <<42064, 27883>>, <<48889, 41975>>, <<50801, 30962>> >>
    IN  [t \in 1..64 |-> Word(k[t][1], k[t][2])] \o <<>>

Sha256H0 ==
    LET h == <<
       <<27145, 58983>>, <<47975, 44677>>, <<15470, 62322>>, <<42319, 62778>>,
       <<20750, 21119>>, <<39685, 26764>>, <<8067, 55723>>, <<23520, 52505>> >>
    IN  [t \in 1..8 |-> Word(h[t][1], h[t][2])] \o <<>>

\* The message schedule: the words w extended to hi words, each new word
\* from four earlier ones.  The first half of what is missing is appended
\* before the second half.
RECURSIVE Schedule(_, _)
Schedule(w, hi) ==
    IF Len(w) >= hi THEN w
    ELSE IF Len(w) + 1 = hi
    THEN Append(w, Sum(<<SmallSigma1(w[Len(w) - 1]), w[Len(w) - 6],
                         SmallSigma0(w[Len(w) - 14]), w[Len(w) - 15]>>))
    ELSE Schedule(Schedule(w, (Len(w) + hi) \div 2), hi)

\* One round of the compression function on the working variables
\* <<a, b, c, d, e, f, g, h>>.
Round(s, k, w) ==
    LET next(t1, t2) ==
            <<Add(t1, t2), s[1], s[2], s[3], Add(s[4], t1), s[5], s[6], s[7]>>
    IN  next(Sum(<<s[8], BigSigma1(s[5]), Ch(s[5], s[6], s[7]), k, w>>),
             Add(BigSigma0(s[1]), Maj(s[1], s[2], s[3])))

\* The working variables after each round up to round hi: states[t + 1] is
\* the state after round t.  The first half of the rounds that are missing
\* is run before the second half.
RECURSIVE Rounds(_, _, _)
Rounds(states, w, hi) ==
    IF Len(states) > hi THEN states
    ELSE IF Len(states) = hi
    THEN Append(states, Round(states[hi], Sha256K[hi], w[hi]))
    ELSE Rounds(Rounds(states, w, (Len(states) + hi) \div 2), w, hi)

\* The compression of one block of sixteen words into the hash value h.
Compress(h, block) ==
    LET added(s) == [i \in 1..8 |-> Add(h[i], s[i])] \o <<>>
    IN  added(Rounds(<<h>>, Schedule(block, 64), 64)[65])

\* The padding of a message of len bytes: the byte 0x80, zeros up to 56
\* modulo 64, and the bit length as eight big-endian bytes.
Padding(len) ==
    <<128>> \o [i \in 1..((119 - (len % 64)) % 64) |-> 0]
    \o <<0, 0, 0, 0, (len \div 2097152) % 256, (len \div 8192) % 256,
         (len \div 32) % 256, (len * 8) % 256>>

\* The blocks of sixteen words of a byte string whose length is a multiple of
\* 64.
Blocks(bytes) ==
    [b \in 1..(Len(bytes) \div 64) |->
        [j \in 1..16 |->
            WordOfBytes(SubSeq(bytes, 64 * (b - 1) + 4 * j - 3,
                               64 * (b - 1) + 4 * j))] \o <<>>] \o <<>>

\* The hash value after every block: hs[n + 1] is the one after block n.
\* The result is the last of them.
RECURSIVE CompressAll(_, _)
CompressAll(hs, blocks) ==
    IF Len(hs) > Len(blocks) THEN hs[Len(hs)]
    ELSE CompressAll(Append(hs, Compress(hs[Len(hs)], blocks[Len(hs)])),
                     blocks)

\* The bytes of a hash value.
DigestBytes(h) ==
    ((WordBytes(h[1]) \o WordBytes(h[2])) \o (WordBytes(h[3]) \o WordBytes(h[4])))
    \o ((WordBytes(h[5]) \o WordBytes(h[6]))
        \o (WordBytes(h[7]) \o WordBytes(h[8])))

\* SHA-256: the digest of a byte string, as thirty-two bytes.
Sha256 ==
    [bytes \in Seq(0..255) |->
        DigestBytes(CompressAll(<<Sha256H0>>,
                                Blocks(bytes \o Padding(Len(bytes)))))]

\* digest('hex'): two lower-case hex digits for every byte.
HexOfBytes(bytes) ==
    [i \in 1..(2 * Len(bytes)) |->
        LET b == bytes[(i + 1) \div 2]
            v == IF i % 2 = 1 THEN b \div 16 ELSE b % 16
        IN  SubSeq("0123456789abcdef", v + 1, v + 1)] \o <<>>

\* The key of HMAC as a block of 64 bytes, every byte xor-ed with pad: a key
\* longer than a block is hashed first, a shorter one is filled up with
\* zeros.
PaddedKey(keyBytes, pad) ==
    LET xored(k0) ==
            [i \in 1..64 |->
                Byte(Xor(Word(0, IF i <= Len(k0) THEN k0[i] ELSE 0),
                         Word(0, pad)), 0)] \o <<>>
    IN  xored(IF Len(keyBytes) > 64 THEN Sha256[keyBytes] ELSE keyBytes)

\* HMAC (RFC 2104) with SHA-256:
\* H((key xor opad) || H((key xor ipad) || message)), ipad being the byte
\* 0x36 and opad the byte 0x5c.
HmacSha256(keyBytes, msgBytes) ==
    Sha256[PaddedKey(keyBytes, 92)
           \o Sha256[PaddedKey(keyBytes, 54) \o msgBytes]]

\* crypto.createHmac('sha256', key).update(msg).digest('hex'): the HMAC of
\* the UTF-8 bytes of msg under the UTF-8 bytes of key, as DigestHexLen
\* lower-case hex digits.
HmacSha256Hex(key, msg) ==
    HexOfBytes(HmacSha256(BufferFrom(key), BufferFrom(msg)))

Sha256Prefix == <<"s", "h", "a", "2", "5", "6", "=">>

ExpectedSignature(payload, appSecret) ==
    Sha256Prefix \o HmacSha256Hex(appSecret, payload)

\* crypto.timingSafeEqual: equality of two byte buffers of equal length; it
\* throws a RangeError when the lengths differ.
TimingSafeEqual(a, b) ==
    IF Len(a) # Len(b)
    THEN [threw |-> TRUE, value |-> FALSE]
    ELSE [threw |-> FALSE, value |-> (a = b)]

\* A JavaScript value passed as the signature argument:
\*   kind "string"   a primitive string (chars)
\*   kind "String"   a String object, new String(chars)
\*   kind "bytes"    a Buffer or an array of byte values (bytes)
\*   kind "other"    undefined, null, a number or a plain object
Str(chars) == [kind |-> "string", chars |-> chars, bytes |-> <<>>]
StringObject(chars) == [kind |-> "String", chars |-> chars, bytes |-> <<>>]
Bytes(bytes) == [kind |-> "bytes", chars |-> <<>>, bytes |-> bytes]
NotAString == [kind |-> "other", chars |-> <<>>, bytes |-> <<>>]

\* Buffer.from(value): a string is encoded as UTF-8 (a String object through
\* its primitive value), a Buffer or a byte array is copied, and every other
\* value raises a TypeError.
BufferFromValue(v) ==
    CASE v.kind \in { "string", "String" } ->
            [threw |-> FALSE, buf |-> BufferFrom(v.chars)]
      [] v.kind = "bytes" -> [threw |-> FALSE, buf |-> v.bytes]
      [] OTHER -> [threw |-> TRUE, buf |-> <<>>]

\* The mutant: the length check is dropped, the comparison always runs.
VerifyTryBodyNoLengthCheck(payload, signature, appSecret) ==
    LET try(expBuf, sig) ==
            IF sig.threw
            THEN [threw |-> TRUE, value |-> FALSE, compared |-> FALSE]
            ELSE LET eq == TimingSafeEqual(sig.buf, expBuf) IN
                 [threw |-> eq.threw, value |-> eq.value, compared |-> TRUE]
    IN  try(BufferFrom(ExpectedSignature(payload, appSecret)),
            BufferFromValue(signature))

\* The body of the try block: the expected signature, the two buffers, the
\* length check and the constant-time comparison.
VerifyTryBody(payload, signature, appSecret) ==
    LET try(expBuf, sig) ==
            IF sig.threw
            THEN [threw |-> TRUE, value |-> FALSE, compared |-> FALSE]
            ELSE IF Len(sig.buf) # Len(expBuf)
            THEN [threw |-> FALSE, value |-> FALSE, compared |-> FALSE]
            ELSE LET eq == TimingSafeEqual(sig.buf, expBuf) IN
                 [threw |-> eq.threw, value |-> eq.value, compared |-> TRUE]
    IN  try(BufferFrom(ExpectedSignature(payload, appSecret)),
            BufferFromValue(signature))

\* The mutant: only the digest part is compared, as a prefix match.
VerifyWebhookSignaturePrefixOnly(payload, signature, appSecret) ==
    LET n == Len(Sha256Prefix) + 8
        try(expBuf, sig) ==
            [result   |-> ~sig.threw /\ Len(sig.buf) >= n
                            /\ SubSeq(sig.buf, 1, n) = SubSeq(expBuf, 1, n),
             raised   |-> FALSE,
             caught   |-> FALSE,
             compared |-> ~sig.threw]
    IN  try(BufferFrom(ExpectedSignature(payload, appSecret)),
            BufferFromValue(signature))

\* verifyWebhookSignature: try { ... } catch { return false }.
\*   result    the boolean returned
\*   raised    an exception left the function
\*   caught    the catch block ran
\*   compared  timingSafeEqual was called
VerifyWebhookSignature(payload, signature, appSecret) ==
    LET catch(t) == [result   |-> IF t.threw THEN FALSE ELSE t.value,
                     raised   |-> FALSE,
                     caught   |-> t.threw,
                     compared |-> t.compared]
    IN  catch(VerifyTryBody(payload, signature, appSecret))

\* ---- the inputs of SpecSig ----

\* The bodies: the empty one, a short one, the text of RFC 4231 test case 2,
\* an envelope longer than one block of SHA-256, and one with a character
\* outside ASCII.
BodyEmpty == <<>>
BodySmall == Chars("{a}")
BodyRfc == Chars("what do ya want for nothing?")
BodyEnvelope == Chars("{\"object\":\"whatsapp_business_account\",\"entry\":[{\"id\":\"1\",\"changes\":[]}]}")
BodyAccent == Chars("{\"t\":\"caf") \o <<E_ACUTE>> \o Chars("\"}")

\* The secrets: a short one, the key of RFC 4231 test case 2, and one
\* longer than a block, which HMAC hashes first.
SecretShort == Chars("k")
SecretRfc == Chars("Jefe")
SecretLong == Chars("0123456789abcdef0123456789abcdef01234567"
                    \o "89abcdef0123456789abcdef0123456789abcdef")

SigBodies   == { BodyEmpty, BodySmall, BodyRfc, BodyEnvelope, BodyAccent }
SigSecrets  == { SecretShort, SecretRfc, SecretLong }
TamperChars == { "0", "F", E_ACUTE }

\* Where one character of a signature is replaced: in the prefix, and at
\* the start, the middle and the end of the digest.
TamperPlaces == { 1, 8, 40, 71 }

\* The signature header of every body under every secret, as an HMAC-SHA256
\* implementation outside this module writes it (OpenSSL; the row of BodyRfc
\* and SecretRfc is the digest printed in RFC 4231, test case 2):
\* <<body, secret, header>>.
KnownSignatures ==
    {
      <<BodyEmpty, SecretShort,
        Chars("sha256=8bb990c40a7d61cb97597a942125025be50ac8beb74436e3735b98893a7f6620")>>,
      <<BodyEmpty, SecretRfc,
        Chars("sha256=923598ca6d64af2a5dba79dcd021a8a0fe5c5f557519adaaf0ad532d4506dd30")>>,
      <<BodyEmpty, SecretLong,
        Chars("sha256=bb0b0c5d752f30e3ca5a88b97c360dcaee1fbbb42ad401925678b7684005060a")>>,
      <<BodySmall, SecretShort,
        Chars("sha256=50bdfc66e9a80fd4630eb8f7e76e6dc7c924e9dd65e94b2be5000c8dc7899f5a")>>,
      <<BodySmall, SecretRfc,
        Chars("sha256=14a44487c163147526d4f0099bdfbfad62f2869d0132bfef0a96db13ed6df711")>>,
      <<BodySmall, SecretLong,
        Chars("sha256=1dcf03c21557c6f1474b25a0a141835e70c7b74c033bd5fe1f90fd2a7683452a")>>,
      <<BodyRfc, SecretShort,
        Chars("sha256=96be90616604b74898cd456b0f019825be346f395d7275881b51a82399cda671")>>,
      <<BodyRfc, SecretRfc,
        Chars("sha256=5bdcc146bf60754e6a042426089575c75a003f089d2739839dec58b964ec3843")>>,
      <<BodyRfc, SecretLong,
        Chars("sha256=0760f22ce73acc79a4a1bbc759abf9553f3855dfc31681e107ff18c244243877")>>,
      <<BodyEnvelope, SecretShort,
        Chars("sha256=2277016d325642087f9015f89f5a73cef7610bd4a84f26a1a6d08825f5e3d67e")>>,
      <<BodyEnvelope, SecretRfc,
        Chars("sha256=9b9f09842e21a5d746db95541b57802fe02d7a11457b0edcf88b2fff4bad4078")>>,
      <<BodyEnvelope, SecretLong,
        Chars("sha256=5f8d8fb09754463233006e950ad9e1be0b840aa5210dd19ca4caa68ce51af442")>>,
      <<BodyAccent, SecretShort,
        Chars("sha256=6ac77198a1b7cd1842a150295d628b07ec29573e4f07e6b954ec0e24cb4f51e3")>>,
      <<BodyAccent, SecretRfc,
        Chars("sha256=2e54bcb624db3de95646bed358e3587aadef4d312cc3d7ca6610b31e9a3ddde5")>>,
      <<BodyAccent, SecretLong,
        Chars("sha256=bbaffb23409efe4d1679c9ff50baf258d25dea159d090d65676909e6da5aff6a")>> }

\* The header of KnownSignatures for a body and a secret.
KnownSignature(payload, secret) ==
    (CHOOSE t \in KnownSignatures : t[1] = payload /\ t[2] = secret)[3]

\* Signatures a caller may present for (payload, secret): the right one, the
\* right one with one character replaced, the right ones of the other bodies
\* under this secret and of this body under the other secrets, strings of
\* other lengths, and values that are no primitive string (the right bytes
\* as a Buffer and as a String object, a tampered and a shortened Buffer, the
\* empty array, and a value Buffer.from rejects).
SignaturesFor(payload, secret) ==
    LET exp == KnownSignature(payload, secret) IN
    { Str(exp), Str(<<>>), Str(SubSeq(exp, Len(Sha256Prefix) + 1, Len(exp))),
      Str(SubSeq(exp, 1, Len(exp) - 1)), Str(exp \o <<"0">>), NotAString,
      Str(SubSeq(exp, 1, Len(exp) - 2) \o <<E_ACUTE>>),
      Bytes(BufferFrom(exp)), StringObject(exp), Bytes(<<>>),
      Bytes([BufferFrom(exp) EXCEPT ![Len(exp)] = 0]),
      Bytes(SubSeq(BufferFrom(exp), 1, Len(exp) - 1)),
      StringObject(SubSeq(exp, 1, Len(exp) - 1)) }
    \cup { Str(t[3]) : t \in { u \in KnownSignatures :
                                    u[1] = payload \/ u[2] = secret } }
    \cup { Str([exp EXCEPT ![i] = c]) : i \in TamperPlaces, c \in TamperChars }

SigPending == [done |-> FALSE,
               r |-> [result |-> FALSE, raised |-> FALSE, caught |-> FALSE,
                      compared |-> FALSE]]

\* One call of verifyWebhookSignature on the chosen arguments.
VerifySignatureCall ==
    /\ ~sigOut.done
    /\ sigOut' = [done |-> TRUE,
                  r |-> VerifyWebhookSignature(sigIn.payload, sigIn.signature,
                                               sigIn.appSecret)]
    /\ UNCHANGED <<sigIn, accounts, dbUrl, getVars, storeVars, postVars>>

(***************************************************************************)
(* GET /webhook: the subscription handshake                                *)
(***************************************************************************)

\* The mutant: the status filter is forgotten.
RowsByVerifyTokenAnyStatus(verifyToken) ==
    LET hit(a) == /\ verifyToken # Undefined
                  /\ a.verify_token # Undefined
                  /\ a.verify_token = verifyToken
        rows   == SelectSeq(accounts, hit)
    IN  IF rows = <<>> THEN <<>> ELSE <<Head(rows)>>

\* SELECT ... FROM whatsapp_accounts WHERE verify_token = $1 AND
\* status = 'active' LIMIT 1.  A NULL column or a NULL parameter matches
\* nothing.
ActiveRowsByVerifyToken(verifyToken) ==
    LET hit(a) == /\ verifyToken # Undefined
                  /\ a.verify_token # Undefined
                  /\ a.verify_token = verifyToken
                  /\ a.status = "active"
        rows   == SelectSeq(accounts, hit)
    IN  IF rows = <<>> THEN <<>> ELSE <<Head(rows)>>

\* process.env.WHATSAPP_VERIFY_TOKEN || process.env.WEBHOOK_VERIFY_TOKEN
ExpectedEnvToken ==
    IF Truthy(envTokens.whatsapp) THEN envTokens.whatsapp ELSE envTokens.webhook

\* The mutant: the token is returned in place of the challenge.
HandleWebhookVerifyEchoToken(verifyToken, challenge, queryFails) ==
    [threw |-> FALSE, value |-> verifyToken, lookups |-> 0]

\* The mutant: without a pool, either environment variable is accepted.
HandleWebhookVerifyEitherEnvToken(verifyToken, challenge, queryFails) ==
    IF ~dbUrl
    THEN IF /\ ~Truthy(envTokens.whatsapp) /\ ~Truthy(envTokens.webhook)
         THEN [threw |-> TRUE, value |-> Undefined, lookups |-> 0]
         ELSE IF verifyToken \notin { envTokens.whatsapp, envTokens.webhook }
         THEN [threw |-> TRUE, value |-> Undefined, lookups |-> 0]
         ELSE [threw |-> FALSE, value |-> challenge, lookups |-> 0]
    ELSE IF queryFails
         THEN [threw |-> TRUE, value |-> Undefined, lookups |-> 1]
         ELSE IF Len(ActiveRowsByVerifyToken(verifyToken)) = 0
         THEN [threw |-> TRUE, value |-> Undefined, lookups |-> 1]
         ELSE [threw |-> FALSE, value |-> challenge, lookups |-> 1]

\* handleWebhookVerify: the challenge, or an exception.  lookups counts the
\* queries sent to the pool.
HandleWebhookVerify(verifyToken, challenge, queryFails) ==
    IF ~dbUrl
    THEN IF ~Truthy(ExpectedEnvToken)
         THEN [threw |-> TRUE, value |-> Undefined, lookups |-> 0]
         ELSE IF verifyToken # ExpectedEnvToken
         THEN [threw |-> TRUE, value |-> Undefined, lookups |-> 0]
         ELSE [threw |-> FALSE, value |-> challenge, lookups |-> 0]
    ELSE IF queryFails
         THEN [threw |-> TRUE, value |-> Undefined, lookups |-> 1]
         ELSE IF Len(ActiveRowsByVerifyToken(verifyToken)) = 0
         THEN [threw |-> TRUE, value |-> Undefined, lookups |-> 1]
         ELSE [threw |-> FALSE, value |-> challenge, lookups |-> 1]

\* res.send(x): the body sent; undefined is sent as an empty body.
SendBody(x) == IF x = Undefined THEN "" ELSE x

\* app.get('/webhook'): the response to one request.
GetWebhookResponse(q) ==
    IF q.mode # "subscribe"
    THEN [status |-> 403, body |-> "Forbidden", lookups |-> 0]
    ELSE LET r == HandleWebhookVerify(q.token, q.challenge, q.queryFails) IN
         IF r.threw
         THEN [status |-> 403, body |-> "Forbidden", lookups |-> r.lookups]
         ELSE [status |-> 200, body |-> SendBody(r.value), lookups |-> r.lookups]

\* ---- the inputs of SpecVerify ----

GetModes      == { "subscribe", "unsubscribe", Undefined }
GetTokens     == { "tokA", "tokB", "tokE", "tokW", "tokX", "", Undefined }
GetChallenges == { "abc123", "1158201444", "", Undefined }
Statuses      == { "active", "inactive" }

\* Three tenants; tokB is held by two of them, acct3 may have no token.
VerifyAccounts(s1, s2, s3, t3) ==
    << [id |-> "acct1", chatbot_id |-> "bot1", phone_number_id |-> "pn1",
        verify_token |-> "tokA", status |-> s1],
       [id |-> "acct2", chatbot_id |-> "bot2", phone_number_id |-> "pn1",
        verify_token |-> "tokB", status |-> s2],
       [id |-> "acct3", chatbot_id |-> "bot3", phone_number_id |-> "pn2",
        verify_token |-> t3, status |-> s3] >>

\* The verify tokens of the active tenants: the rows of the table, or the one
\* implicit tenant of the environment when there is no database.
ActiveTenantTokens ==
    IF dbUrl
    THEN { accounts[i].verify_token : i \in { j \in 1..Len(accounts) :
                /\ accounts[j].status = "active"
                /\ accounts[j].verify_token # Undefined } }
    ELSE IF Truthy(envTokens.whatsapp) THEN { envTokens.whatsapp }
    ELSE IF Truthy(envTokens.webhook) THEN { envTokens.webhook }
    ELSE {}

\* The GET requests in flight at once.
GetIds == { "g1", "g2" }

GetNoRequest == [mode |-> Undefined, token |-> Undefined,
                 challenge |-> Undefined, queryFails |-> FALSE]

\* A request the server has received and not yet handled.
GetPending == [pc |-> "pending", status |-> 0, body |-> Undefined,
               lookups |-> 0]

\* res.status(..).send(..): the response of a finished handler.
Responded(r) == [pc |-> "responded", status |-> r.status, body |-> r.body,
                 lookups |-> r.lookups]

\* The requests that arrive beside the first one.
OtherGetRequests ==
    { [mode |-> "unsubscribe", token |-> "tokA", challenge |-> "abc123",
       queryFails |-> FALSE],
      [mode |-> "subscribe", token |-> "tokB", challenge |-> "1158201444",
       queryFails |-> FALSE] }

GetUnchanged ==
    UNCHANGED <<sigVars, accounts, dbUrl, envTokens, getReq,
                storeVars, postVars>>

\* app.get('/webhook') up to its first await: a mode other than 'subscribe'
\* is answered at once; otherwise handleWebhookVerify is called and waits
\* for getDbClient().
GetWebhook(g) ==
    /\ getResp[g].pc = "pending"
    /\ getResp' = [getResp EXCEPT ![g] =
            IF getReq[g].mode # "subscribe"
            THEN Responded(GetWebhookResponse(getReq[g]))
            ELSE [@ EXCEPT !.pc = "getDbClient"]]
    /\ GetUnchanged

\* getDbClient() has returned.  Without a pool the token is compared with the
\* environment's and the request is answered; with a pool the SELECT is sent
\* and the handler waits for its result.
VerifyGetDbClient(g) ==
    /\ getResp[g].pc = "getDbClient"
    /\ getResp' = [getResp EXCEPT ![g] =
            IF dbUrl
            THEN [@ EXCEPT !.pc = "query", !.lookups = 1]
            ELSE Responded(GetWebhookResponse(getReq[g]))]
    /\ GetUnchanged

\* pool.query has settled: its rows or its error decide the response.
VerifyQuery(g) ==
    /\ getResp[g].pc = "query"
    /\ getResp' = [getResp EXCEPT ![g] =
                        Responded(GetWebhookResponse(getReq[g]))]
    /\ GetUnchanged

(***************************************************************************)
(* POST /webhook: the envelope                                             *)
(***************************************************************************)

WhatsAppObject == "whatsapp_business_account"

\* A message of value.messages.  arg is the field its type reads: text.body,
\* image.caption, video.caption, document.filename, button.text, the title of
\* interactive.button_reply or interactive.list_reply, or the coordinates of
\* a location; sub is interactive.type.  timestamp is parseInt(timestamp):
\* a number (a negative one too), or NaN when the field does not parse.
Num(n) == [nan |-> FALSE, n |-> n]
NaN == [nan |-> TRUE, n |-> 0]

Message(from, id, timestamp, type, sub, arg) ==
    [from |-> from, id |-> id, timestamp |-> timestamp, type |-> type,
     sub |-> sub, arg |-> arg]

\* x || fallback for an optional string.
OrElse(x, fallback) == IF Truthy(x) THEN x ELSE fallback

\* The switch of processIncomingMessage: the text a message is projected to.
MessageContent(m) ==
    CASE m.type = "text"     -> OrElse(m.arg, "")
      [] m.type = "image"    -> OrElse(m.arg, "[Image]")
      [] m.type = "audio"    -> "[Voice message]"
      [] m.type = "video"    -> OrElse(m.arg, "[Video]")
      [] m.type = "document" -> "[Document: " \o OrElse(m.arg, "document") \o "]"
      [] m.type = "location" ->
            "[Location: " \o OrElse(m.arg, "undefined, undefined") \o "]"
      [] m.type = "button"   -> OrElse(m.arg, "")
      [] m.type = "interactive" ->
            IF m.sub \in { "button_reply", "list_reply" }
            THEN OrElse(m.arg, "") ELSE ""
      [] OTHER -> "[Unsupported message type: " \o m.type \o "]"

\* Only these types go past the projection.
RepliedTypes == { "text", "button", "interactive" }

\* new Date(n * 1000) for a number n: the instant, kept in seconds.
DateOf(ts) == ts.n

\* new Date(n * 1000) is a valid Date when n is a number and the time value
\* is within 8.64e15 ms of the epoch, that is |n| <= 8640000 * 10^6 seconds;
\* timestamp.toISOString() throws a RangeError on an invalid Date.
ValidDate(ts) ==
    /\ ~ts.nan
    /\ LET abs == IF ts.n < 0 THEN 0 - ts.n ELSE ts.n IN
       \/ abs \div 1000000 < 8640000
       \/ abs \div 1000000 = 8640000 /\ abs % 1000000 = 0

\* contacts?.find(c => c.wa_id === from)?.profile?.name || 'Unknown'
CustomerName(cs, from) ==
    LET hits == SelectSeq(cs, LAMBDA c : c.wa_id = from) IN
    IF hits = <<>> THEN "Unknown" ELSE OrElse(Head(hits).name, "Unknown")

\* The mutant: the marker leaves out the bot.
UniqueConvIdPhoneOnly(from, chatbotId) == "whatsapp_" \o from

\* `whatsapp_${from}_${account.chatbot_id}`
UniqueConvId(from, chatbotId) == "whatsapp_" \o from \o "_" \o chatbotId

(***************************************************************************)
(* The store                                                               *)
(***************************************************************************)

\* The mutant: the status filter is forgotten.
RowsByPhoneNumberIdAnyStatus(phoneNumberId) ==
    SelectSeq(accounts, LAMBDA a : a.phone_number_id = phoneNumberId)

\* The mutant: only the first matching tenant is served (LIMIT 1).
FirstActiveRowByPhoneNumberId(phoneNumberId) ==
    LET rows == SelectSeq(accounts, LAMBDA a :
                    a.phone_number_id = phoneNumberId /\ a.status = "active")
    IN  IF rows = <<>> THEN <<>> ELSE <<Head(rows)>>

\* SELECT ... FROM whatsapp_accounts WHERE phone_number_id = $1 AND
\* status = 'active'
ActiveRowsByPhoneNumberId(phoneNumberId) ==
    SelectSeq(accounts, LAMBDA a :
        a.phone_number_id = phoneNumberId /\ a.status = "active")

\* The mutant: the lookup finds no contact.
ContactRowsNone(chatbotId, from) == <<>>

\* SELECT id FROM whatsapp_contacts WHERE chatbot_id = $1 AND
\* phone_number = $2 LIMIT 1
ContactRows(chatbotId, from) ==
    LET rows == SelectSeq(contacts, LAMBDA r :
                    r.chatbot_id = chatbotId /\ r.phone_number = from)
    IN  IF rows = <<>> THEN <<>> ELSE <<Head(rows)>>

\* createId(): an id no other contact row has.
NewContactId == Len(contacts) + 1

\* INSERT INTO whatsapp_contacts ... RETURNING id
InsertedContact(account, m, name) ==
    [id |-> NewContactId, chatbot_id |-> account.chatbot_id,
     phone_number |-> m.from, display_name |-> name,
     meta |-> [wa_id |-> m.from, first_seen_at |-> DateOf(m.timestamp),
               last_seen_at |-> DateOf(m.timestamp),
               last_inbound_message_id |-> m.id,
               phone_number_id |-> account.phone_number_id,
               source |-> "organic", opt_in_status |-> TRUE]]

\* The mutant: the UPDATE writes the metadata of a new contact over the old.
UpdatedContactsOverwrite(contactId, name, ts) ==
    [k \in 1..Len(contacts) |->
        IF contacts[k].id = contactId
        THEN [contacts[k] EXCEPT !.display_name = name,
                                 !.meta.first_seen_at = ts,
                                 !.meta.last_seen_at = ts]
        ELSE contacts[k]]

\* UPDATE whatsapp_contacts SET display_name = $1, whatsapp_user_metadata =
\* jsonb_set(..., '{last_seen_at}', $2) WHERE id = $3
UpdatedContacts(contactId, name, ts) ==
    [k \in 1..Len(contacts) |->
        IF contacts[k].id = contactId
        THEN [contacts[k] EXCEPT !.display_name = name,
                                 !.meta.last_seen_at = ts]
        ELSE contacts[k]]

\* responseData.citations: a list, or absent.
NoCitations == [has |-> FALSE, list |-> <<>>]
Citations(list) == [has |-> TRUE, list |-> list]

\* responseData.citations || []
CitationsOrEmpty(x) == IF x.has THEN x.list ELSE <<>>

\* JSON.stringify of one character c with code unit n: the quote and the
\* backslash are escaped with a backslash, the control characters below
\* U+0020 are written \b, \t, \n, \f, \r or \u00xx, and a surrogate on its
\* own \udxxx.
JsonCode(c, n) ==
    LET hex(v) == SubSeq("0123456789abcdef", v + 1, v + 1)
        u == <<"\\", "u", hex(n \div 4096), hex((n \div 256) % 16),
               hex((n \div 16) % 16), hex(n % 16)>>
    IN  CASE c = "\"" -> <<"\\", "\"">>
          [] c = "\\" -> <<"\\", "\\">>
          [] n = 8 -> <<"\\", "b">>
          [] n = 9 -> <<"\\", "t">>
          [] n = 10 -> <<"\\", "n">>
          [] n = 12 -> <<"\\", "f">>
          [] n = 13 -> <<"\\", "r">>
          [] n < 32 \/ n \in 55296..57343 -> u
          [] OTHER -> <<c>>

JsonChar(c) == JsonCode(c, CodePoint(c))

\* The escaped characters of a string with code units cp; a high surrogate
\* followed by a low one is a well-formed pair and is left as it is.
JsonEscapedAt(str, cp) ==
    Flatten([i \in 1..Len(str) |->
        IF PairedHigh(cp, i) \/ PairedLow(cp, i)
        THEN <<str[i]>> ELSE JsonCode(str[i], cp[i])])

JsonEscaped(str) == JsonEscapedAt(str, CodePoints(str))

\* JSON.stringify of a string (a sequence of characters): the escaped
\* characters between two quotes.
JsonString(str) == <<"\"">> \o JsonEscaped(str) \o <<"\"">>

\* The texts of the items behind one another, with commas between them,
\* inside a pair of brackets or braces.
JsonJoin(open, items, close) ==
    <<open>>
    \o Flatten([k \in 1..Len(items) |->
                    IF k = 1 THEN items[k] ELSE <<",">> \o items[k]])
    \o <<close>>

\* JSON.stringify of a list of strings, character by character.
JsonStringify(list) ==
    JsonJoin("[", [k \in 1..Len(list) |-> JsonString(list[k])], "]")

\* JSON.stringify(payload) of the parsed envelope: the members in the order
\* of the WhatsAppWebhookPayload interface, an undefined member left out.
\* The envelope of the model keeps the members the handlers read; here they
\* are its whole body.  A list of contacts, messages or statuses that is
\* empty stands for an absent member; the timestamp of a message is the
\* decimal text of its number, or "abc" when it does not parse; the field a
\* type reads (text.body, image.caption, ...) holds the message's arg, and
\* the arg of a location is the text of its two numbers, "52.5, 13.4", each
\* written as a number, or left out when it is undefined.
JsonStringifyPayload(p) ==
    LET str(s) == JsonString(Chars(s))
        member(k, v) == str(k) \o <<":">> \o v
        opt(k, s) == IF s = Undefined THEN <<>> ELSE <<member(k, str(s))>>
        object(ms) == JsonJoin("{", ms, "}")
        array(xs) == JsonJoin("[", xs, "]")
        list(k, xs) == IF xs = <<>> THEN <<>> ELSE <<member(k, array(xs))>>
        number(k, s) ==
            IF s = "undefined" THEN <<>> ELSE <<member(k, Chars(s))>>
        coordinates(s) ==
            IF ~Truthy(s) THEN <<>>
            ELSE LET at == CHOOSE i \in 1..Len(s) :
                            /\ SubSeq(s, i, i + 1) = ", "
                            /\ \A j \in 1..(i - 1) : SubSeq(s, j, j + 1) # ", "
                 IN  number("latitude", SubSeq(s, 1, at - 1))
                     \o number("longitude", SubSeq(s, at + 2, Len(s)))
        read(m) ==
            CASE m.type = "text" ->
                    <<member("text", object(opt("body", m.arg)))>>
              [] m.type \in { "image", "video" } ->
                    <<member(m.type, object(opt("caption", m.arg)))>>
              [] m.type = "audio" -> <<member("audio", object(<<>>))>>
              [] m.type = "document" ->
                    <<member("document", object(opt("filename", m.arg)))>>
              [] m.type = "location" ->
                    <<member("location", object(coordinates(m.arg)))>>
              [] m.type = "button" ->
                    <<member("button", object(opt("text", m.arg)))>>
              [] m.type = "interactive" ->
                    <<member("interactive", object(
                        opt("type", m.sub)
                        \o IF m.sub \in { "button_reply", "list_reply" }
                           THEN <<member(m.sub, object(opt("title", m.arg)))>>
                           ELSE <<>>))>>
              [] OTHER -> <<>>
        message(m) ==
            object(opt("from", m.from) \o opt("id", m.id)
                   \o opt("timestamp", IF m.timestamp.nan THEN "abc"
                                       ELSE ToString(m.timestamp.n))
                   \o opt("type", m.type) \o read(m))
        contact(c) ==
            object(<<member("profile", object(opt("name", c.name)))>>
                   \o opt("wa_id", c.wa_id))
        status(x) == object(opt("id", x.id) \o opt("status", x.status))
        value(v) ==
            object(<<member("metadata",
                            object(opt("phone_number_id", v.phone_number_id)))>>
                   \o list("contacts",
                           [k \in 1..Len(v.contacts) |-> contact(v.contacts[k])])
                   \o list("messages",
                           [k \in 1..Len(v.messages) |-> message(v.messages[k])])
                   \o list("statuses",
                           [k \in 1..Len(v.statuses) |-> status(v.statuses[k])]))
        change(c) ==
            object(<<member("value", value(c.value))>> \o opt("field", c.field))
        entry(e) ==
            object(opt("id", e.id)
                   \o <<member("changes",
                               array([k \in 1..Len(e.changes) |->
                                        change(e.changes[k])]))>>)
    IN  object(opt("object", p.object)
               \o IF p.hasEntry
                  THEN <<member("entry", array([k \in 1..Len(p.entry) |->
                                                    entry(p.entry[k])]))>>
                  ELSE <<>>)

\* (req as any).rawBody || JSON.stringify(payload): the text the signature
\* is checked against.  rawBody is <<>> when express.json captured no body
\* (or an empty one).
SignedBody(r) ==
    IF r.rawBody # <<>> THEN r.rawBody ELSE JsonStringifyPayload(r.payload)

\* The text PostgreSQL reads as a value of a text[] column: an array literal
\* opens with a brace ('[' opens explicit dimensions '[1:2]=' and nothing
\* else).
ArrayLiteralAccepted(text) == text # <<>> /\ text[1] = "{"

\* messages.citations is text[]; the assistant INSERT passes a JSON text for
\* it, and PostgreSQL rejects the statement unless the text reads as an
\* array literal.
AssistantInsertAccepted(citationsText) == ArrayLiteralAccepted(citationsText)

\* messages.channel_message_metadata is json; the status UPDATE puts it in
\* COALESCE with a jsonb value.  json and jsonb have no implicit cast, so
\* PostgreSQL rejects the statement when the column is json.
MetadataColumnType == "json"
StatusUpdateAccepted == MetadataColumnType = "jsonb"

\* The row of INSERT INTO messages (..., 'WHATSAPP', 'user', ...).
UserRow(account, m, contactId) ==
    [chatbot_id |-> account.chatbot_id, channel |-> "WHATSAPP",
     type |-> "user", content |-> MessageContent(m),
     unique_conv_id |-> UniqueConvId(m.from, account.chatbot_id),
     citations |-> <<>>,
     meta |-> [phoneNumber |-> m.from, waMessageId |-> m.id,
               messageType |-> "text", contactId |-> contactId,
               status |-> Undefined],
     created_at |-> DateOf(m.timestamp)]

\* The row of INSERT INTO messages (..., 'WHATSAPP', 'assistant', ...).
AssistantRow(account, m, contactId, reply, citations, finalMessageId) ==
    [chatbot_id |-> account.chatbot_id, channel |-> "WHATSAPP",
     type |-> "assistant", content |-> reply,
     unique_conv_id |-> UniqueConvId(m.from, account.chatbot_id),
     citations |-> JsonStringify(CitationsOrEmpty(citations)),
     meta |-> [phoneNumber |-> m.from, waMessageId |-> finalMessageId,
               messageType |-> "text", contactId |-> contactId,
               status |-> Undefined],
     created_at |-> clock]

\* An assistant row the table holds at the start.  The table is shared with
\* other services; a row of theirs has the columns of the assistant INSERT
\* and an array in citations (the empty one, the default of the column).
StoredAssistantRow(account, m, contactId, reply, messageId, createdAt) ==
    [AssistantRow(account, m, contactId, reply, NoCitations, messageId)
        EXCEPT !.citations = <<>>, !.created_at = createdAt]

\* SELECT id, api_key FROM chatbot WHERE id = $1 LIMIT 1
ChatbotRows(chatbotId) ==
    LET rows == SelectSeq(chatbots, LAMBDA b : b.id = chatbotId) IN
    IF rows = <<>> THEN <<>> ELSE <<Head(rows)>>

\* LIMIT 10 of the history query.
HistoryLimit == 10

\* ORDER BY created_at ASC: the rows in ascending created_at, rows of equal
\* created_at in table order.
RECURSIVE SortByCreatedAt(_)
SortByCreatedAt(rows) ==
    IF rows = <<>> THEN <<>>
    ELSE LET least == CHOOSE k \in 1..Len(rows) :
                        \A j \in 1..Len(rows) :
                            \/ rows[k].created_at < rows[j].created_at
                            \/ rows[k].created_at = rows[j].created_at /\ k <= j
             rest  == [j \in 1..(Len(rows) - 1) |->
                        IF j < least THEN rows[j] ELSE rows[j + 1]]
         IN  <<rows[least]>> \o SortByCreatedAt(rest)

\* The mutant: the query has no LIMIT.
HistoryNoLimit(chatbotId, convId) ==
    LET rows   == SelectSeq(messages, LAMBDA r :
                    /\ r.chatbot_id = chatbotId
                    /\ r.unique_conv_id = convId
                    /\ r.channel = "WHATSAPP")
        sorted == SortByCreatedAt(rows)
    IN  [k \in 1..Len(sorted) |->
            [role |-> IF sorted[k].type = "user" THEN "user" ELSE "assistant",
             content |-> sorted[k].content]]

\* The mutant: the history query has no condition on the bot or the marker.
HistoryAllTenants(chatbotId, convId) ==
    LET rows   == SelectSeq(messages, LAMBDA r : r.channel = "WHATSAPP")
        sorted == SortByCreatedAt(rows)
        n      == IF Len(sorted) < HistoryLimit THEN Len(sorted) ELSE HistoryLimit
    IN  [k \in 1..n |->
            [role |-> IF sorted[k].type = "user" THEN "user" ELSE "assistant",
             content |-> sorted[k].content]]

\* SELECT content, type FROM messages WHERE chatbot_id = $1 AND
\* unique_conv_id = $2 AND channel = 'WHATSAPP' ORDER BY created_at ASC
\* LIMIT 10, mapped to {role, content}.
History(chatbotId, convId) ==
    LET rows   == SelectSeq(messages, LAMBDA r :
                    /\ r.chatbot_id = chatbotId
                    /\ r.unique_conv_id = convId
                    /\ r.channel = "WHATSAPP")
        sorted == SortByCreatedAt(rows)
        n      == IF Len(sorted) < HistoryLimit THEN Len(sorted) ELSE HistoryLimit
    IN  [k \in 1..n |->
            [role |-> IF sorted[k].type = "user" THEN "user" ELSE "assistant",
             content |-> sorted[k].content]]

\* UPDATE messages SET channel_message_metadata = jsonb_set(..., '{status}',
\* $1) WHERE channel = 'WHATSAPP' AND
\* channel_message_metadata->>'waMessageId' = $2
StatusUpdatedMessages(statusValue, messageId) ==
    [k \in 1..Len(messages) |->
        IF messages[k].channel = "WHATSAPP"
           /\ messages[k].meta.waMessageId = messageId
        THEN [messages[k] EXCEPT !.meta.status = statusValue]
        ELSE messages[k]]

\* The two fixed apology texts.
ApologyGateway ==
    "Sorry, I encountered an error processing your message. Please try again later."
ApologyCatch == "Sorry, I encountered an error. Please try again later."

(***************************************************************************)
(* POST /webhook: the request handler                                      *)
(***************************************************************************)

PostPending == [status |-> 0, success |-> FALSE, text |-> Undefined]

\* The locals of one processIncomingMessage call.
LocNone == [found |-> FALSE, contactId |-> 0, apiKey |-> Undefined,
            history |-> <<>>, reply |-> Undefined, citations |-> NoCitations,
            msgId |-> Undefined]

\* A handleWebhookMessage call: where it stands (pc), the entry, change,
\* tenant and element it is at, and accountResult.rows of the change.
TaskNone == [pc |-> "none", e |-> 0, c |-> 0, a |-> 0, i |-> 0,
             rows |-> <<>>, loc |-> LocNone]

\* The mutant: an invalid signature is logged and the request goes on.
PostWebhookOutcomeNoReject(r) ==
    IF r.payload.object # WhatsAppObject
    THEN [status |-> 200, success |-> TRUE,
          text |-> "Not a WhatsApp webhook event", spawn |-> FALSE]
    ELSE [status |-> 200, success |-> TRUE, text |-> "Webhook received",
          spawn |-> TRUE]

\* The mutant: with a secret configured, a request without a valid signature
\* header is rejected.
PostWebhookOutcomeSignatureRequired(r) ==
    LET isValid == /\ r.signature.present
                   /\ \E rawBody \in { SignedBody(r) } :
                        VerifyWebhookSignature(rawBody, Str(r.signature.chars),
                                               r.appSecret).result
    IN  IF r.appSecret # <<>> /\ ~isValid
        THEN [status |-> 401, success |-> FALSE, text |-> "Invalid signature",
              spawn |-> FALSE]
        ELSE IF r.payload.object # WhatsAppObject
        THEN [status |-> 200, success |-> TRUE,
              text |-> "Not a WhatsApp webhook event", spawn |-> FALSE]
        ELSE [status |-> 200, success |-> TRUE, text |-> "Webhook received",
              spawn |-> TRUE]

\* The mutant: the handler awaits handleWebhookMessage before it responds.
PostWebhookOutcomeAwaiting(r) ==
    LET checked == r.signature.present /\ r.signature.chars # <<>>
                   /\ r.appSecret # <<>>
        isValid == \E rawBody \in { SignedBody(r) } :
                        VerifyWebhookSignature(rawBody, Str(r.signature.chars),
                                               r.appSecret).result
    IN  IF checked /\ ~isValid
        THEN [status |-> 401, success |-> FALSE, text |-> "Invalid signature",
              spawn |-> FALSE]
        ELSE IF r.payload.object # WhatsAppObject
        THEN [status |-> 200, success |-> TRUE,
              text |-> "Not a WhatsApp webhook event", spawn |-> FALSE]
        ELSE [status |-> 0, success |-> FALSE, text |-> Undefined,
              spawn |-> TRUE]

\* The mutant: the object tag is not looked at.
PostWebhookOutcomeAnyObject(r) ==
    LET checked == r.signature.present /\ r.signature.chars # <<>>
                   /\ r.appSecret # <<>>
        isValid == \E rawBody \in { SignedBody(r) } :
                        VerifyWebhookSignature(rawBody, Str(r.signature.chars),
                                               r.appSecret).result
    IN  IF checked /\ ~isValid
        THEN [status |-> 401, success |-> FALSE, text |-> "Invalid signature",
              spawn |-> FALSE]
        ELSE [status |-> 200, success |-> TRUE, text |-> "Webhook received",
              spawn |-> TRUE]

\* app.post('/webhook'): the response sent, and whether handleWebhookMessage
\* is called.  r.signature is the x-hub-signature-256 header, r.appSecret
\* what process.env.FACEBOOK_APP_SECRET reads (<<>> when unset or empty).
\* The signature is checked against rawBody, the body express.json's verify
\* hook captured, or JSON.stringify(payload) when there is none.
PostWebhookOutcome(r) ==
    LET checked == r.signature.present /\ r.signature.chars # <<>>
                   /\ r.appSecret # <<>>
        isValid == \E rawBody \in { SignedBody(r) } :
                        VerifyWebhookSignature(rawBody, Str(r.signature.chars),
                                               r.appSecret).result
    IN  IF checked /\ ~isValid
        THEN [status |-> 401, success |-> FALSE, text |-> "Invalid signature",
              spawn |-> FALSE]
        ELSE IF r.payload.object # WhatsAppObject
        THEN [status |-> 200, success |-> TRUE,
              text |-> "Not a WhatsApp webhook event", spawn |-> FALSE]
        ELSE [status |-> 200, success |-> TRUE, text |-> "Webhook received",
              spawn |-> TRUE]

\* The mutant: no request is answered while a send is hanging.
PostWebhookBlockedByHang(d) ==
    /\ d \in deliveries
    /\ postResp[d].status = 0
    /\ task[d].pc = "none"
    /\ \A other \in deliveries : task[other].pc # "hung"
    /\ \E out \in { PostWebhookOutcome(postReq[d]) } :
        /\ postResp' = [postResp EXCEPT ![d] =
                [status |-> out.status, success |-> out.success,
                 text |-> out.text]]
        /\ task' = [task EXCEPT ![d].pc =
                IF out.spawn THEN "getDb"
                ELSE IF out.status = 401 THEN "rejected" ELSE "ignored"]
    /\ UNCHANGED <<sigVars, accounts, dbUrl, getVars, storeVars,
                   deliveries,
                   postReq, effects, gatewayCalls, dispatches, faults>>

\* The handler runs to its end in one turn of the event loop: the call of
\* handleWebhookMessage returns a promise at its first await (getDbClient),
\* and the response is sent.
PostWebhook(d) ==
    /\ d \in deliveries
    /\ postResp[d].status = 0
    /\ task[d].pc = "none"
    /\ \E out \in { PostWebhookOutcome(postReq[d]) } :
        /\ postResp' = [postResp EXCEPT ![d] =
                [status |-> out.status, success |-> out.success,
                 text |-> out.text]]
        /\ task' = [task EXCEPT ![d].pc =
                IF out.spawn THEN "getDb"
                ELSE IF out.status = 401 THEN "rejected" ELSE "ignored"]
    /\ UNCHANGED <<sigVars, accounts, dbUrl, getVars, storeVars,
                   deliveries,
                   postReq, effects, gatewayCalls, dispatches, faults>>

(***************************************************************************)
(* handleWebhookMessage: the loops                                         *)
(***************************************************************************)

Ev(d, t, acct, phase, op) ==
    [d |-> d, e |-> t.e, c |-> t.c, a |-> t.a, acct |-> acct,
     phase |-> phase, i |-> t.i, op |-> op]

\* The mutant: a change without a routing key ends the loops.
RECURSIVE SeekChangeStopAtMissingKey(_, _, _)
SeekChangeStopAtMissingKey(p, e, c) ==
    IF e > Len(p.entry) THEN [pc |-> "done", e |-> e, c |-> 0]
    ELSE IF c > Len(p.entry[e].changes)
         THEN SeekChangeStopAtMissingKey(p, e + 1, 1)
    ELSE IF ~Truthy(p.entry[e].changes[c].value.phone_number_id)
         THEN [pc |-> "done", e |-> e, c |-> 0]
    ELSE [pc |-> "lookup", e |-> e, c |-> c]

\* The next change whose tenants are looked up, from change c of entry e on:
\* a change without a routing key is skipped.
RECURSIVE SeekChange(_, _, _)
SeekChange(p, e, c) ==
    IF e > Len(p.entry) THEN [pc |-> "done", e |-> e, c |-> 0]
    ELSE IF c > Len(p.entry[e].changes) THEN SeekChange(p, e + 1, 1)
    ELSE IF ~Truthy(p.entry[e].changes[c].value.phone_number_id)
         THEN SeekChange(p, e, c + 1)
    ELSE [pc |-> "lookup", e |-> e, c |-> c]

\* The mutant: the statuses of a tenant are handled before its messages.
RECURSIVE SeekUnitStatusesFirst(_, _, _, _, _, _, _)
SeekUnitStatusesFirst(p, rows, e, c, a, phase, i) ==
    LET ch   == p.entry[e].changes[c]
        unit(pc, k) == [pc |-> pc, e |-> e, c |-> c, a |-> a, i |-> k]
        next == SeekUnitStatusesFirst(p, rows, e, c, a + 1, "msg", 1)
    IN
    IF a > Len(rows) THEN SeekChange(p, e, c + 1)
    ELSE IF ch.field # "messages" THEN next
    ELSE IF phase = "msg" /\ i = 1
    THEN IF Len(ch.value.statuses) > 0 THEN unit("status", 1)
         ELSE IF Len(ch.value.messages) > 0 THEN unit("msg", 1)
         ELSE next
    ELSE IF phase = "status"
    THEN IF i <= Len(ch.value.statuses) THEN unit("status", i)
         ELSE IF Len(ch.value.messages) > 0 THEN unit("msg", 1)
         ELSE next
    ELSE IF i <= Len(ch.value.messages) THEN unit("msg", i)
    ELSE next

\* The mutant: the statuses of a tenant are handled from the last one to the
\* first (i is the place behind the status that was handled).
RECURSIVE SeekUnitStatusesBackwards(_, _, _, _, _, _, _)
SeekUnitStatusesBackwards(p, rows, e, c, a, phase, i) ==
    LET ch   == p.entry[e].changes[c]
        unit(pc, k) == [pc |-> pc, e |-> e, c |-> c, a |-> a, i |-> k]
        next == SeekUnitStatusesBackwards(p, rows, e, c, a + 1, "msg", 1)
    IN
    IF a > Len(rows) THEN SeekChange(p, e, c + 1)
    ELSE IF ch.field # "messages" THEN next
    ELSE IF phase = "msg"
    THEN IF i <= Len(ch.value.messages) THEN unit("msg", i)
         ELSE IF Len(ch.value.statuses) > 0
         THEN unit("status", Len(ch.value.statuses))
         ELSE next
    ELSE IF i >= 3 THEN unit("status", i - 2)
    ELSE next

\* The next element handled within a change, from element i of the phase
\* ("msg", then "status") of tenant a on: for each tenant every message in
\* array order, then every status in array order; a change of another field
\* is logged only.
RECURSIVE SeekUnit(_, _, _, _, _, _, _)
SeekUnit(p, rows, e, c, a, phase, i) ==
    LET ch == p.entry[e].changes[c] IN
    IF a > Len(rows)
    THEN SeekChange(p, e, c + 1)
    ELSE IF ch.field # "messages"
    THEN SeekUnit(p, rows, e, c, a + 1, "msg", 1)
    ELSE IF phase = "msg"
    THEN IF i <= Len(ch.value.messages)
         THEN [pc |-> "msg", e |-> e, c |-> c, a |-> a, i |-> i]
         ELSE SeekUnit(p, rows, e, c, a, "status", 1)
    ELSE IF i <= Len(ch.value.statuses)
         THEN [pc |-> "status", e |-> e, c |-> c, a |-> a, i |-> i]
         ELSE SeekUnit(p, rows, e, c, a + 1, "msg", 1)

\* The task at a position; accountResult.rows and the locals of the message
\* handler are dropped when it leaves them.
At(pos, rows) ==
    [pc |-> pos.pc, e |-> pos.e, c |-> pos.c,
     a |-> IF pos.pc \in { "msg", "status" } THEN pos.a ELSE 0,
     i |-> IF pos.pc \in { "msg", "status" } THEN pos.i ELSE 0,
     rows |-> IF pos.pc \in { "msg", "status" } THEN rows ELSE <<>>,
     loc |-> LocNone]

\* processIncomingMessage or processMessageStatus returned: on to the next.
Returned(p, t) ==
    At(SeekUnit(p, t.rows, t.e, t.c, t.a,
                IF t.pc = "status" THEN "status" ELSE "msg", t.i + 1),
       t.rows)

\* handleWebhookMessage rejected: the catch in index.ts logs it.
Rejected(t) == [At([pc |-> "failed", e |-> t.e, c |-> t.c], <<>>)
                EXCEPT !.a = t.a, !.i = t.i]

\* The mutant: the catch block of processIncomingMessage rethrows.
OnUnitErrorRethrow(t) == Rejected(t)

\* An exception inside the try block of processIncomingMessage: the catch
\* block logs it and goes on to send the apology.
OnUnitError(t) == [t EXCEPT !.pc = "apologyCatch"]

\* The calls of processIncomingMessageSimple in the mode without a
\* database, in the order of the loops: one per message of every 'messages'
\* change, for the one tenant of the environment.
SimpleUnits(d, p) ==
    Flatten([e \in 1..Len(p.entry) |->
        Flatten([c \in 1..Len(p.entry[e].changes) |->
            IF p.entry[e].changes[c].field = "messages"
            THEN [i \in 1..Len(p.entry[e].changes[c].value.messages) |->
                    [ts |-> p.entry[e].changes[c].value.messages[i].timestamp,
                     ev |-> [d |-> d, e |-> e, c |-> c, a |-> 1,
                             acct |-> "env-account", phase |-> "msg",
                             i |-> i, op |-> "simple"]]]
            ELSE <<>>])])

\* The calls up to the first one whose log line throws on its timestamp.
RECURSIVE LoggedPrefix(_)
LoggedPrefix(units) ==
    IF units = <<>> \/ ~ValidDate(Head(units).ts) THEN <<>>
    ELSE <<Head(units).ev>> \o LoggedPrefix(Tail(units))

\* The logging of the mode without a database: one event per message
\* handled, until a message with an invalid timestamp stops the loops.
SimpleEvents(d, p) == LoggedPrefix(SimpleUnits(d, p))

\* processIncomingMessageSimple threw: the catch block rethrows and
\* handleWebhookMessage is rejected.
SimpleThrows(d, p) ==
    \E k \in 1..Len(SimpleUnits(d, p)) : ~ValidDate(SimpleUnits(d, p)[k].ts)

(***************************************************************************)
(* handleWebhookMessage: the steps, one per await                          *)
(***************************************************************************)

\* The most collaborator failures (a query that errors, a gateway call that
\* fails or answers success:false, a send that fails) injected in one run.
MaxFaults == 1

FaultChoices == IF faults < MaxFaults THEN { TRUE, FALSE } ELSE { FALSE }

Payload(d) == postReq[d].payload
Change(d)  == Payload(d).entry[task[d].e].changes[task[d].c]
Account(d) == task[d].rows[task[d].a]
Msg(d)     == Change(d).value.messages[task[d].i]
Status(d)  == Change(d).value.statuses[task[d].i]

Spend(fail) == faults' = faults + (IF fail THEN 1 ELSE 0)

Log(events) == effects' = effects \o events

\* await getDbClient() returned.  Without a pool every message is logged for
\* the tenant of the environment, up to one whose timestamp makes the log
\* line throw; with a pool the loops start.  An envelope without an entry
\* list makes the for-of throw.
GetDbClient(d) ==
    /\ d \in deliveries
    /\ task[d].pc = "getDb"
    /\ LET p == Payload(d) t == task[d] IN
       IF ~p.hasEntry
       THEN /\ task' = [task EXCEPT ![d] = Rejected(t)]
            /\ UNCHANGED effects
       ELSE IF ~dbUrl
       THEN /\ task' = [task EXCEPT ![d] =
                            IF SimpleThrows(d, p) THEN Rejected(t)
                            ELSE At([pc |-> "done", e |-> 0, c |-> 0], <<>>)]
            /\ Log(SimpleEvents(d, p))
       ELSE /\ task' = [task EXCEPT ![d] = At(SeekChange(p, 1, 1), <<>>)]
            /\ UNCHANGED effects
    /\ UNCHANGED <<sigVars, accounts, dbUrl, getVars, storeVars,
                   deliveries,
                   postReq, postResp, gatewayCalls, dispatches, faults>>

\* The mutant: the rejection of handleWebhookMessage is answered with a 500.
LookupAccountsRespond500(d) ==
    /\ d \in deliveries
    /\ task[d].pc = "lookup"
    /\ \E fail \in FaultChoices :
        LET t    == task[d]
            rows == ActiveRowsByPhoneNumberId(Change(d).value.phone_number_id)
        IN  /\ Spend(fail)
            /\ Log(<<Ev(d, t, "-", "lookup", IF fail THEN "error" ELSE "lookup")>>)
            /\ task' = [task EXCEPT ![d] =
                    IF fail THEN Rejected(t)
                    ELSE IF Len(rows) = 0
                    THEN At(SeekChange(Payload(d), t.e, t.c + 1), <<>>)
                    ELSE At(SeekUnit(Payload(d), rows, t.e, t.c, 1, "msg", 1),
                            rows)]
            /\ postResp' = IF fail
                           THEN [postResp EXCEPT ![d] =
                                    [status |-> 500, success |-> FALSE,
                                     text |-> "Internal Server Error"]]
                           ELSE postResp
    /\ UNCHANGED <<sigVars, accounts, dbUrl, getVars, storeVars,
                   deliveries,
                   postReq, gatewayCalls, dispatches>>

\* The mutant: a failed tenant lookup is logged and the change is skipped.
LookupAccountsSkipOnError(d) ==
    /\ d \in deliveries
    /\ task[d].pc = "lookup"
    /\ \E fail \in FaultChoices :
        LET t    == task[d]
            rows == ActiveRowsByPhoneNumberId(Change(d).value.phone_number_id)
        IN  /\ Spend(fail)
            /\ Log(<<Ev(d, t, "-", "lookup", IF fail THEN "error" ELSE "lookup")>>)
            /\ task' = [task EXCEPT ![d] =
                    IF fail \/ Len(rows) = 0
                    THEN At(SeekChange(Payload(d), t.e, t.c + 1), <<>>)
                    ELSE At(SeekUnit(Payload(d), rows, t.e, t.c, 1, "msg", 1),
                            rows)]
    /\ UNCHANGED <<sigVars, accounts, dbUrl, getVars, storeVars,
                   deliveries,
                   postReq, postResp, gatewayCalls, dispatches>>

\* The tenant lookup of one change.  A query error leaves the loops and
\* rejects handleWebhookMessage; zero rows skip the change.
LookupAccounts(d) ==
    /\ d \in deliveries
    /\ task[d].pc = "lookup"
    /\ \E fail \in FaultChoices :
        LET t    == task[d]
            rows == ActiveRowsByPhoneNumberId(Change(d).value.phone_number_id)
        IN  /\ Spend(fail)
            /\ Log(<<Ev(d, t, "-", "lookup", IF fail THEN "error" ELSE "lookup")>>)
            /\ task' = [task EXCEPT ![d] =
                    IF fail THEN Rejected(t)
                    ELSE IF Len(rows) = 0
                    THEN At(SeekChange(Payload(d), t.e, t.c + 1), <<>>)
                    ELSE At(SeekUnit(Payload(d), rows, t.e, t.c, 1, "msg", 1),
                            rows)]
    /\ UNCHANGED <<sigVars, accounts, dbUrl, getVars, storeVars,
                   deliveries,
                   postReq, postResp, gatewayCalls, dispatches>>

\* The mutant: a message of any type goes on to persistence and the reply.
MsgBeginAnyType(d) ==
    /\ d \in deliveries
    /\ task[d].pc = "msg"
    /\ LET t == task[d] m == Msg(d) IN
        /\ Log(<<Ev(d, t, Account(d).id, "msg", "begin")>>)
        /\ task' = [task EXCEPT ![d] =
                IF MessageContent(m) = ""
                THEN Returned(Payload(d), t)
                ELSE [t EXCEPT !.pc = "selContact"]]
    /\ UNCHANGED <<sigVars, accounts, dbUrl, getVars, storeVars,
                   deliveries,
                   postReq, postResp, gatewayCalls, dispatches, faults>>

\* The mutant: a message with an empty text goes on as well.
MsgBeginEmptyText(d) ==
    /\ d \in deliveries
    /\ task[d].pc = "msg"
    /\ LET t == task[d] m == Msg(d) IN
        /\ Log(<<Ev(d, t, Account(d).id, "msg", "begin")>>)
        /\ task' = [task EXCEPT ![d] =
                IF m.type \notin RepliedTypes
                THEN Returned(Payload(d), t)
                ELSE [t EXCEPT !.pc = "selContact"]]
    /\ UNCHANGED <<sigVars, accounts, dbUrl, getVars, storeVars,
                   deliveries,
                   postReq, postResp, gatewayCalls, dispatches, faults>>

\* processIncomingMessage up to its first await: the projection, and the two
\* early returns.
MsgBegin(d) ==
    /\ d \in deliveries
    /\ task[d].pc = "msg"
    /\ LET t == task[d] m == Msg(d) IN
        /\ Log(<<Ev(d, t, Account(d).id, "msg", "begin")>>)
        /\ task' = [task EXCEPT ![d] =
                IF m.type \notin RepliedTypes \/ MessageContent(m) = ""
                THEN Returned(Payload(d), t)
                ELSE [t EXCEPT !.pc = "selContact"]]
    /\ UNCHANGED <<sigVars, accounts, dbUrl, getVars, storeVars,
                   deliveries,
                   postReq, postResp, gatewayCalls, dispatches, faults>>

\* SELECT id FROM whatsapp_contacts ...
SelectContact(d) ==
    /\ d \in deliveries
    /\ task[d].pc = "selContact"
    /\ \E fail \in FaultChoices :
        LET t    == task[d]
            rows == ContactRows(Account(d).chatbot_id, Msg(d).from)
        IN  /\ Spend(fail)
            /\ Log(<<Ev(d, t, Account(d).id, "msg",
                        IF fail THEN "error" ELSE "selectContact")>>)
            /\ task' = [task EXCEPT ![d] =
                    IF fail THEN OnUnitError(t)
                    ELSE [t EXCEPT !.pc = "upsertContact",
                                   !.loc.found = (rows # <<>>),
                                   !.loc.contactId =
                                        IF rows = <<>> THEN 0 ELSE rows[1].id]]
    /\ UNCHANGED <<sigVars, accounts, dbUrl, getVars, storeVars,
                   deliveries,
                   postReq, postResp, gatewayCalls, dispatches>>

\* The INSERT of a new contact or the UPDATE of the one found.  An invalid
\* timestamp throws while the parameters are built; an INSERT for a pair that
\* has a row by now violates the unique index.
UpsertContact(d) ==
    /\ d \in deliveries
    /\ task[d].pc = "upsertContact"
    /\ \E fail \in FaultChoices :
        LET t    == task[d]
            m    == Msg(d)
            acct == Account(d)
            name == CustomerName(Change(d).value.contacts, m.from)
            bad  == \/ fail
                    \/ ~ValidDate(m.timestamp)
                    \/ ~t.loc.found /\ ContactRows(acct.chatbot_id, m.from) # <<>>
        IN  /\ Spend(fail)
            /\ Log(<<Ev(d, t, acct.id, "msg",
                        IF bad THEN "error"
                        ELSE IF t.loc.found THEN "updateContact"
                        ELSE "insertContact")>>)
            /\ contacts' =
                    IF bad THEN contacts
                    ELSE IF t.loc.found
                    THEN UpdatedContacts(t.loc.contactId, name,
                                         DateOf(m.timestamp))
                    ELSE Append(contacts, InsertedContact(acct, m, name))
            /\ task' = [task EXCEPT ![d] =
                    IF bad THEN OnUnitError(t)
                    ELSE [t EXCEPT !.pc = "insertUser",
                                   !.loc.contactId =
                                        IF t.loc.found THEN t.loc.contactId
                                        ELSE NewContactId]]
    /\ UNCHANGED <<sigVars, accounts, dbUrl, getVars, chatbots,
                   messages,
                   clock, deliveries, postReq, postResp, gatewayCalls,
                   dispatches>>

\* The mutant: the inbound row takes the place of the rows of its
\* conversation.
InsertUserMessageReplaces(d) ==
    /\ d \in deliveries
    /\ task[d].pc = "insertUser"
    /\ \E fail \in FaultChoices :
        LET t   == task[d]
            row == UserRow(Account(d), Msg(d), t.loc.contactId)
        IN  /\ Spend(fail)
            /\ Log(<<Ev(d, t, Account(d).id, "msg",
                        IF fail THEN "error" ELSE "insertUser")>>)
            /\ messages' =
                    IF fail THEN messages
                    ELSE Append(SelectSeq(messages, LAMBDA r :
                                    r.unique_conv_id # row.unique_conv_id),
                                row)
            /\ task' = [task EXCEPT ![d] =
                    IF fail THEN OnUnitError(t)
                    ELSE [t EXCEPT !.pc = "selChatbot"]]
    /\ UNCHANGED <<sigVars, accounts, dbUrl, getVars, chatbots,
                   contacts,
                   clock, deliveries, postReq, postResp, gatewayCalls,
                   dispatches>>

\* INSERT INTO messages: the inbound row.
InsertUserMessage(d) ==
    /\ d \in deliveries
    /\ task[d].pc = "insertUser"
    /\ \E fail \in FaultChoices :
        LET t == task[d] IN
            /\ Spend(fail)
            /\ Log(<<Ev(d, t, Account(d).id, "msg",
                        IF fail THEN "error" ELSE "insertUser")>>)
            /\ messages' =
                    IF fail THEN messages
                    ELSE Append(messages,
                                UserRow(Account(d), Msg(d), t.loc.contactId))
            /\ task' = [task EXCEPT ![d] =
                    IF fail THEN OnUnitError(t)
                    ELSE [t EXCEPT !.pc = "selChatbot"]]
    /\ UNCHANGED <<sigVars, accounts, dbUrl, getVars, chatbots,
                   contacts,
                   clock, deliveries, postReq, postResp, gatewayCalls,
                   dispatches>>

\* The mutant: a missing bot or API key is thrown into the catch block.
SelectChatbotMissingKeyThrows(d) ==
    /\ d \in deliveries
    /\ task[d].pc = "selChatbot"
    /\ \E fail \in FaultChoices :
        LET t    == task[d]
            rows == ChatbotRows(Account(d).chatbot_id)
        IN  /\ Spend(fail)
            /\ Log(<<Ev(d, t, Account(d).id, "msg",
                        IF fail THEN "error" ELSE "selectChatbot")>>)
            /\ task' = [task EXCEPT ![d] =
                    IF fail THEN OnUnitError(t)
                    ELSE IF rows = <<>> \/ ~Truthy(rows[1].api_key)
                    THEN OnUnitError(t)
                    ELSE [t EXCEPT !.pc = "selHistory",
                                   !.loc.apiKey = rows[1].api_key]]
    /\ UNCHANGED <<sigVars, accounts, dbUrl, getVars, storeVars,
                   deliveries,
                   postReq, postResp, gatewayCalls, dispatches>>

\* SELECT id, api_key FROM chatbot: no row or no key ends the message.
SelectChatbot(d) ==
    /\ d \in deliveries
    /\ task[d].pc = "selChatbot"
    /\ \E fail \in FaultChoices :
        LET t    == task[d]
            rows == ChatbotRows(Account(d).chatbot_id)
        IN  /\ Spend(fail)
            /\ Log(<<Ev(d, t, Account(d).id, "msg",
                        IF fail THEN "error" ELSE "selectChatbot")>>)
            /\ task' = [task EXCEPT ![d] =
                    IF fail THEN OnUnitError(t)
                    ELSE IF rows = <<>> \/ ~Truthy(rows[1].api_key)
                    THEN Returned(Payload(d), t)
                    ELSE [t EXCEPT !.pc = "selHistory",
                                   !.loc.apiKey = rows[1].api_key]]
    /\ UNCHANGED <<sigVars, accounts, dbUrl, getVars, storeVars,
                   deliveries,
                   postReq, postResp, gatewayCalls, dispatches>>

\* The history query.
SelectHistory(d) ==
    /\ d \in deliveries
    /\ task[d].pc = "selHistory"
    /\ \E fail \in FaultChoices :
        LET t    == task[d]
            acct == Account(d)
        IN  /\ Spend(fail)
            /\ Log(<<Ev(d, t, acct.id, "msg",
                        IF fail THEN "error" ELSE "selectHistory")>>)
            /\ task' = [task EXCEPT ![d] =
                    IF fail THEN OnUnitError(t)
                    ELSE [t EXCEPT !.pc = "gateway",
                                   !.loc.history =
                                        History(acct.chatbot_id,
                                                UniqueConvId(Msg(d).from,
                                                             acct.chatbot_id))]]
    /\ UNCHANGED <<sigVars, accounts, dbUrl, getVars, storeVars,
                   deliveries,
                   postReq, postResp, gatewayCalls, dispatches>>

\* What the Response Gateway may answer: a reply, success:false (or no reply
\* text), or an error (timeout after 30 s, non-2xx, no connection).
GatewayReply == "Hello from the assistant"

\* The citations the gateway returns: a list for bot1 (the second one holds
\* a quote and a backslash), none for the others.
GatewayCitations(chatbotId) ==
    IF chatbotId = "bot1"
    THEN Citations(<< <<"d", "o", "c", "-", "1">>,
                      <<"a", "\"", "b", "\\", "c">> >>)
    ELSE NoCitations
GatewayOutcomes ==
    IF faults < MaxFaults THEN { "ok", "soft", "throw" } ELSE { "ok" }

\* The mutant: a failed call is made again.
CallGatewayRetry(d) ==
    /\ d \in deliveries
    /\ task[d].pc = "gateway"
    /\ \E out \in GatewayOutcomes :
        LET t    == task[d]
            acct == Account(d)
            m    == Msg(d)
        IN  /\ Spend(out # "ok")
            /\ gatewayCalls' = Append(gatewayCalls,
                    [d |-> d, e |-> t.e, c |-> t.c, i |-> t.i,
                     acct |-> acct.id, outcome |-> out,
                     query |-> t.loc.history,
                     uniqueClientId |-> UniqueConvId(m.from, acct.chatbot_id),
                     converslyWebId |-> t.loc.apiKey,
                     phoneNumber |-> m.from, chatbotId |-> acct.chatbot_id])
            /\ Log(IF out = "throw"
                   THEN <<Ev(d, t, acct.id, "msg", "gateway"),
                          Ev(d, t, acct.id, "msg", "error")>>
                   ELSE <<Ev(d, t, acct.id, "msg", "gateway")>>)
            /\ task' = [task EXCEPT ![d] =
                    IF out # "ok" THEN t
                    ELSE [t EXCEPT !.pc = "sendReply",
                                   !.loc.reply = GatewayReply,
                                   !.loc.citations =
                                        GatewayCitations(acct.chatbot_id)]]
    /\ UNCHANGED <<sigVars, accounts, dbUrl, getVars, storeVars,
                   deliveries,
                   postReq, postResp, dispatches>>

\* axios.post(`${responseApiUrl}/response`, responseRequest)
CallGateway(d) ==
    /\ d \in deliveries
    /\ task[d].pc = "gateway"
    /\ \E out \in GatewayOutcomes :
        LET t    == task[d]
            acct == Account(d)
            m    == Msg(d)
        IN  /\ Spend(out # "ok")
            /\ gatewayCalls' = Append(gatewayCalls,
                    [d |-> d, e |-> t.e, c |-> t.c, i |-> t.i,
                     acct |-> acct.id, outcome |-> out,
                     query |-> t.loc.history,
                     uniqueClientId |-> UniqueConvId(m.from, acct.chatbot_id),
                     converslyWebId |-> t.loc.apiKey,
                     phoneNumber |-> m.from, chatbotId |-> acct.chatbot_id])
            /\ Log(IF out = "throw"
                   THEN <<Ev(d, t, acct.id, "msg", "gateway"),
                          Ev(d, t, acct.id, "msg", "error")>>
                   ELSE <<Ev(d, t, acct.id, "msg", "gateway")>>)
            /\ task' = [task EXCEPT ![d] =
                    IF out = "throw" THEN OnUnitError(t)
                    ELSE IF out = "soft" THEN [t EXCEPT !.pc = "apologyGw"]
                    ELSE [t EXCEPT !.pc = "sendReply",
                                   !.loc.reply = GatewayReply,
                                   !.loc.citations =
                                        GatewayCitations(acct.chatbot_id)]]
    /\ UNCHANGED <<sigVars, accounts, dbUrl, getVars, storeVars,
                   deliveries,
                   postReq, postResp, dispatches>>

\* sendWhatsAppMessage: the POST to the provider's send API.  It never
\* throws; a failure is returned (ok is FALSE) and leaves messageId
\* undefined.
Dispatch(d, text, ok) ==
    [d |-> d, e |-> task[d].e, c |-> task[d].c, i |-> task[d].i,
     acct |-> Account(d).id, ok |-> ok,
     phoneNumberId |-> Account(d).phone_number_id,
     accessToken |-> Account(d).access_token,
     to |-> Msg(d).from, message |-> text]

\* The reply is sent; finalMessageId is the provider's id or `ai_${Date.now()}`.
SendReply(d) ==
    /\ d \in deliveries
    /\ task[d].pc = "sendReply"
    /\ \E fail \in FaultChoices :
        LET t == task[d] IN
            /\ Spend(fail)
            /\ dispatches' = Append(dispatches, Dispatch(d, t.loc.reply, ~fail))
            /\ Log(<<Ev(d, t, Account(d).id, "msg", "dispatch")>>)
            /\ clock' = clock + 1
            /\ task' = [task EXCEPT ![d] =
                    [t EXCEPT !.pc = "insertAssistant",
                              !.loc.msgId = IF fail
                                            THEN "ai_" \o ToString(clock)
                                            ELSE "wamid.reply"]]
    /\ UNCHANGED <<sigVars, accounts, dbUrl, getVars, chatbots,
                   contacts,
                   messages, deliveries, postReq, postResp, gatewayCalls>>

\* INSERT INTO messages: the assistant row, created at NOW().
InsertAssistant(d) ==
    /\ d \in deliveries
    /\ task[d].pc = "insertAssistant"
    /\ \E fault \in FaultChoices :
        LET t    == task[d]
            fail == \/ fault
                    \/ ~AssistantInsertAccepted(
                            JsonStringify(CitationsOrEmpty(t.loc.citations)))
        IN
            /\ Spend(fault)
            /\ Log(<<Ev(d, t, Account(d).id, "msg",
                        IF fail THEN "error" ELSE "insertAssistant")>>)
            /\ messages' =
                    IF fail THEN messages
                    ELSE Append(messages,
                                AssistantRow(Account(d), Msg(d),
                                             t.loc.contactId, t.loc.reply,
                                             t.loc.citations, t.loc.msgId))
            /\ clock' = IF fail THEN clock ELSE clock + 1
            /\ task' = [task EXCEPT ![d] =
                    IF fail THEN OnUnitError(t)
                    ELSE Returned(Payload(d), t)]
    /\ UNCHANGED <<sigVars, accounts, dbUrl, getVars, chatbots,
                   contacts,
                   deliveries, postReq, postResp, gatewayCalls, dispatches>>

\* The mutant: the apology is sent from the catch block only.
SendApologyCatchOnly(d) ==
    /\ d \in deliveries
    /\ task[d].pc \in { "apologyGw", "apologyCatch" }
    /\ \E ok \in BOOLEAN : LET t == task[d] IN
        /\ dispatches' = IF t.pc = "apologyGw" THEN dispatches
                         ELSE Append(dispatches, Dispatch(d, ApologyCatch, ok))
        /\ Log(<<Ev(d, t, Account(d).id, "msg", "dispatch")>>)
        /\ task' = [task EXCEPT ![d] = Returned(Payload(d), t)]
    /\ UNCHANGED <<sigVars, accounts, dbUrl, getVars, storeVars,
                   deliveries,
                   postReq, postResp, gatewayCalls, faults>>

\* The mutant: a failed send of an apology is thrown out of
\* processIncomingMessage.
SendApologyThrows(d) ==
    /\ d \in deliveries
    /\ task[d].pc \in { "apologyGw", "apologyCatch" }
    /\ \E ok \in BOOLEAN : LET t == task[d] IN
        /\ dispatches' = Append(dispatches,
                Dispatch(d, IF t.pc = "apologyGw" THEN ApologyGateway
                            ELSE ApologyCatch, ok))
        /\ Log(<<Ev(d, t, Account(d).id, "msg", "dispatch")>>)
        /\ task' = [task EXCEPT ![d] =
                IF ok THEN Returned(Payload(d), t) ELSE Rejected(t)]
    /\ UNCHANGED <<sigVars, accounts, dbUrl, getVars, storeVars,
                   deliveries,
                   postReq, postResp, gatewayCalls, faults>>

\* One of the two apologies is sent: after success:false from the gateway,
\* or from the catch block.  The send may fail as well; its result is only
\* logged.  An apology follows a failure, so its own failure is not counted
\* in MaxFaults.
SendApology(d) ==
    /\ d \in deliveries
    /\ task[d].pc \in { "apologyGw", "apologyCatch" }
    /\ \E ok \in BOOLEAN : LET t == task[d] IN
        /\ dispatches' = Append(dispatches,
                Dispatch(d, IF t.pc = "apologyGw" THEN ApologyGateway
                            ELSE ApologyCatch, ok))
        /\ Log(<<Ev(d, t, Account(d).id, "msg", "dispatch")>>)
        /\ task' = [task EXCEPT ![d] = Returned(Payload(d), t)]
    /\ UNCHANGED <<sigVars, accounts, dbUrl, getVars, storeVars,
                   deliveries,
                   postReq, postResp, gatewayCalls, faults>>

\* The POST of sendWhatsAppMessage is made without a timeout: the provider
\* may never answer, and then the await of the send never returns.  Nothing
\* else of this handleWebhookMessage call runs after that.
SendHangs(d) ==
    /\ d \in deliveries
    /\ task[d].pc \in { "sendReply", "apologyGw", "apologyCatch" }
    /\ faults < MaxFaults
    /\ Spend(TRUE)
    /\ Log(<<Ev(d, task[d], Account(d).id, "msg", "hang")>>)
    /\ task' = [task EXCEPT ![d].pc = "hung"]
    /\ UNCHANGED <<sigVars, accounts, dbUrl, getVars, storeVars,
                   deliveries,
                   postReq, postResp, gatewayCalls, dispatches>>

\* The mutant: the error of the UPDATE is thrown on.
ProcessStatusRethrow(d) ==
    /\ d \in deliveries
    /\ task[d].pc = "status"
    /\ \E fault \in FaultChoices :
        LET t    == task[d]
            fail == fault \/ ~StatusUpdateAccepted
        IN
            /\ Spend(fault)
            /\ Log(<<Ev(d, t, Account(d).id, "status",
                        IF fail THEN "error" ELSE "updateStatus")>>)
            /\ messages' =
                    IF fail THEN messages
                    ELSE StatusUpdatedMessages(Status(d).status, Status(d).id)
            /\ task' = [task EXCEPT ![d] =
                    IF fail THEN Rejected(t) ELSE Returned(Payload(d), t)]
    /\ UNCHANGED <<sigVars, accounts, dbUrl, getVars, chatbots,
                   contacts,
                   clock, deliveries, postReq, postResp, gatewayCalls,
                   dispatches>>

\* processMessageStatus: the UPDATE, whose error is logged and swallowed.
ProcessStatus(d) ==
    /\ d \in deliveries
    /\ task[d].pc = "status"
    /\ \E fault \in FaultChoices :
        LET t    == task[d]
            fail == fault \/ ~StatusUpdateAccepted
        IN
            /\ Spend(fault)
            /\ Log(<<Ev(d, t, Account(d).id, "status",
                        IF fail THEN "error" ELSE "updateStatus")>>)
            /\ messages' =
                    IF fail THEN messages
                    ELSE StatusUpdatedMessages(Status(d).status, Status(d).id)
            /\ task' = [task EXCEPT ![d] = Returned(Payload(d), t)]
    /\ UNCHANGED <<sigVars, accounts, dbUrl, getVars, chatbots,
                   contacts,
                   clock, deliveries, postReq, postResp, gatewayCalls,
                   dispatches>>

(***************************************************************************)
(* The requests and store contents of Spec                                 *)
(***************************************************************************)

\* The most messages and the most statuses one change carries.
MaxMsgs == 2
MaxStatuses == 2

\* The message kinds of the envelopes; the id of a message is set from its
\* place in value.messages.
MsgKinds ==
    { Message("u1", "-", Num(100), "text", Undefined, "hello"),
      Message("u1", "-", Num(110), "audio", Undefined, Undefined),
      Message("u2", "-", Num(120), "button", Undefined, "") }

\* Lists with a timestamp that does not parse ("abc"), first or second, and
\* one with the timestamp "-1".
OddTimestampLists ==
    { << Message("u1", "wamid.in1", NaN, "text", Undefined, "hello"),
         Message("u1", "wamid.in2", Num(110), "text", Undefined, "again") >>,
      << Message("u1", "wamid.in1", Num(100), "text", Undefined, "hello"),
         Message("u1", "wamid.in2", NaN, "text", Undefined, "again") >>,
      << Message("u1", "wamid.in1", Num(0 - 1), "text", Undefined, "hello") >> }

\* The statuses of the envelopes: the provider's reports on the reply.
StatusKinds ==
    { [id |-> "wamid.reply", status |-> "delivered"],
      [id |-> "wamid.reply", status |-> "read"] }

SeqsUpTo(S, n) == UNION { [1..k -> S] : k \in 0..n }

MessageLists ==
    { [i \in 1..Len(ms) |-> [ms[i] EXCEPT !.id = "wamid.in" \o ToString(i)]] :
        ms \in SeqsUpTo(MsgKinds, MaxMsgs) }

StatusLists == SeqsUpTo(StatusKinds, MaxStatuses)

\* No status or one 'delivered', for the deliveries whose statuses only have
\* to be there.
ShortStatusLists ==
    { ss \in StatusLists :
        Len(ss) <= 1 /\ \A k \in 1..Len(ss) : ss[k].status = "delivered" }

Chg(field, key, ms, ss) ==
    [field |-> field,
     value |-> [phone_number_id |-> key,
                contacts |-> <<[wa_id |-> "u1", name |-> "Ann"]>>,
                messages |-> ms, statuses |-> ss]]

Entry(changes) == [id |-> "waba-1", changes |-> changes]

Envelope(entry) ==
    [object |-> WhatsAppObject, hasEntry |-> TRUE, entry |-> entry]

\* The envelopes: every list of messages and statuses on a change routed to
\* two tenants, behind a change or an entry that is skipped, on changes
\* with no routing key, an unknown one, or another field, and messages with
\* timestamps that do not parse or are negative.
Envelopes ==
    { Envelope(<<Entry(<<Chg("messages", "pn1", ms, ss)>>)>>) :
        ms \in MessageLists, ss \in StatusLists }
    \cup { Envelope(<<Entry(<<Chg(f, k, ms, <<>>)>>)>>) :
            f \in { "messages", "message_template_status_update",
                    "account_update" },
            k \in { "pn1", "pn2", "pnX", "", Undefined },
            ms \in { ms \in MessageLists : Len(ms) = 1 } }
    \cup { Envelope(<<Entry(<<Chg("messages", k, ms, <<>>),
                               Chg("messages", "pn1", ms, <<>>)>>)>>) :
            k \in { "pnX", "pn2", Undefined },
            ms \in { ms \in MessageLists : Len(ms) = 1 } }
    \cup { Envelope(<<Entry(<<>>),
                      Entry(<<Chg("messages", "pn2", ms, ss)>>),
                      Entry(<<Chg("messages", "pn1", ms, ss)>>)>>) :
            ms \in { ms \in MessageLists : Len(ms) = 1 },
            ss \in StatusLists }
    \cup { Envelope(<<Entry(<<Chg("messages", "pn1", ms, <<>>)>>)>>) :
            ms \in OddTimestampLists }
    \cup { Envelope(<<>>),
           [object |-> WhatsAppObject, hasEntry |-> FALSE, entry |-> <<>>],
           [object |-> "page", hasEntry |-> TRUE, entry |-> <<>>],
           [object |-> Undefined, hasEntry |-> FALSE, entry |-> <<>>] }

NoHeader == [present |-> FALSE, chars |-> <<>>]
Header(chars) == [present |-> TRUE, chars |-> chars]

\* A request: the raw body, the parsed envelope, the signature header and
\* the secret the handler reads from the environment.
Request(rawBody, payload, signature, appSecret) ==
    [rawBody |-> rawBody, payload |-> payload, signature |-> signature,
     appSecret |-> appSecret]

PostBody == BodySmall
PostSecret == SecretShort

\* The signature header of JSON.stringify(payload) for the payloads of
\* NoBodyPayloads under PostSecret, written by the same implementation as
\* KnownSignatures: <<text, secret, header>>.
NoBodySignatures ==
    {
      <<Chars("{}"),
        SecretShort,
        Chars("sha256=add853b103fbcc936a194f9eb15e29c4ff08af6e47d5d1bca4f20218e31e4fff")>>,
      <<Chars("{\"object\":\"page\",\"entry\":[]}"),
        SecretShort,
        Chars("sha256=488fc16ab4cb416aa35ea57fcda9d26d96d18ec5f3917a6b7d90041aa2b1b16d")>>,
      <<Chars("{\"object\":\"whatsapp_business_account\",\"entry\":[]}"),
        SecretShort,
        Chars("sha256=3b7a114ef29d0008d428ab827d432ff0ddecd5d3e8577d744a7963753fbe85eb")>>,
      <<Chars("{\"object\":\"whatsapp_business_account\",\"entry\":[{\"id\":\"wa")
        \o Chars("ba-1\",\"changes\":[{\"value\":{\"metadata\":{\"phone_number_id\"")
        \o Chars(":\"pn2\"},\"contacts\":[{\"profile\":{\"name\":\"Ann\"},\"wa_id\":\"u")
        \o Chars("1\"}],\"messages\":[{\"from\":\"u1\",\"id\":\"wamid.in1\",\"timestam")
        \o Chars("p\":\"100\",\"type\":\"text\",\"text\":{\"body\":\"hello\"}}]},\"field")
        \o Chars("\":\"messages\"}]}]}"),
        SecretShort,
        Chars("sha256=571093516de8a97dd1c4aeeff23e32b4d8cdc99f64e4f9754ac33ed0291b9fac")>>,
      <<Chars("{\"object\":\"whatsapp_business_account\",\"entry\":[{\"id\":\"wa")
        \o Chars("ba-1\",\"changes\":[{\"value\":{\"metadata\":{\"phone_number_id\"")
        \o Chars(":\"pnX\"},\"contacts\":[{\"profile\":{\"name\":\"Ann\"},\"wa_id\":\"u")
        \o Chars("1\"}],\"messages\":[{\"from\":\"u1\",\"id\":\"wamid.in1\",\"timestam")
        \o Chars("p\":\"100\",\"type\":\"location\",\"location\":{\"latitude\":52.5,\"")
        \o Chars("longitude\":13.4}}]},\"field\":\"messages\"}]}]}"),
        SecretShort,
        Chars("sha256=c7376204d756472b59439f2fdeeb5d029bfceefaabd19c896332949ed95d2f4d")>> }

\* The header Meta sends for a body under a secret.
PostSignature(body, secret) ==
    (CHOOSE t \in KnownSignatures \cup NoBodySignatures :
        t[1] = body /\ t[2] = secret)[3]


\* The header of a request is the one Meta sends for the text the handler
\* checks and the secret it reads.
RightlySigned(r) ==
    \E rawBody \in { SignedBody(r) } :
        \E t \in KnownSignatures \cup NoBodySignatures :
            t[1] = rawBody /\ t[2] = r.appSecret /\ t[3] = r.signature.chars

\* The signature headers tried: none, the right one, a tampered one, one of
\* another length, one made with another secret, an empty one.
PostHeaders ==
    LET exp == PostSignature(PostBody, PostSecret) IN
    { NoHeader, Header(exp), Header([exp EXCEPT ![Len(exp)] = "F"]),
      Header(SubSeq(exp, 1, Len(exp) - 1)),
      Header(PostSignature(PostBody, SecretRfc)), Header(<<>>) }

\* Requests on which express.json captured no raw body, so that the
\* signature is checked against JSON.stringify(payload): signed over the
\* empty text, over the text of the parsed body, or not signed.
NoBodyPayloads ==
    { [object |-> Undefined, hasEntry |-> FALSE, entry |-> <<>>],
      [object |-> "page", hasEntry |-> TRUE, entry |-> <<>>],
      Envelope(<<>>),
      Envelope(<<Entry(<<Chg("messages", "pn2", <<Message("u1", "wamid.in1",
                    Num(100), "text", Undefined, "hello")>>, <<>>)>>)>>),
      Envelope(<<Entry(<<Chg("messages", "pnX", <<Message("u1", "wamid.in1",
                    Num(100), "location", Undefined, "52.5, 13.4")>>,
                    <<>>)>>)>>) }

NoBodyRequests ==
    { Request(<<>>, p, h, PostSecret) :
        p \in NoBodyPayloads,
        h \in { Header(PostSignature(<<>>, PostSecret)), NoHeader } }
    \cup UNION { { Request(<<>>, p, Header(PostSignature(text, PostSecret)),
                              PostSecret) :
                        text \in { JsonStringifyPayload(p) } } :
                    p \in NoBodyPayloads }

\* Every envelope unsigned with no secret configured, every header and
\* secret on three envelopes, and the requests with no raw body.
Requests ==
    NoBodyRequests \cup
    { Request(PostBody, p, NoHeader, <<>>) : p \in Envelopes }
    \cup { Request(PostBody, p, h, s) :
            p \in { Envelope(<<Entry(<<Chg("messages", "pn1", ms, <<>>)>>)>>) :
                        ms \in { ms \in MessageLists : Len(ms) = 1 } }
                  \cup { [object |-> "page", hasEntry |-> TRUE, entry |-> <<>>] },
            h \in PostHeaders, s \in { <<>>, PostSecret } }

\* The tenants: two share the routing key pn1, one has pn2.
PostAccounts(s1, s2, s3) ==
    << [id |-> "acct1", chatbot_id |-> "bot1", phone_number_id |-> "pn1",
        access_token |-> "token1", verify_token |-> "tokA", status |-> s1],
       [id |-> "acct2", chatbot_id |-> "bot2", phone_number_id |-> "pn1",
        access_token |-> "token2", verify_token |-> "tokB", status |-> s2],
       [id |-> "acct3", chatbot_id |-> "bot3", phone_number_id |-> "pn2",
        access_token |-> "token3", verify_token |-> Undefined, status |-> s3] >>

\* The bots: bot3 has no API key.
PostChatbots ==
    << [id |-> "bot1", api_key |-> "key1"],
       [id |-> "bot2", api_key |-> "key2"],
       [id |-> "bot3", api_key |-> Undefined] >>

\* NOW() when the run starts: later than the timestamps of the envelopes.
ClockStart == 1000

SigIdle ==
    /\ sigIn = [payload |-> <<>>, signature |-> NotAString, appSecret |-> <<>>]
    /\ sigOut = SigPending

GetIdle ==
    /\ accounts = <<>>
    /\ dbUrl = FALSE
    /\ envTokens = [whatsapp |-> Undefined, webhook |-> Undefined]
    /\ getReq = [g \in GetIds |-> GetNoRequest]
    /\ getResp = [g \in GetIds |-> GetPending]

\* No request has come in.  Every tenant's chatbot_id references a row of
\* chatbot (schema.ts: whatsapp_accounts.chatbot_id), so the chatbot table
\* is empty only where the tenant table is.
PostIdle ==
    /\ chatbots = IF accounts = <<>> THEN <<>> ELSE PostChatbots
    /\ contacts = <<>>
    /\ messages = <<>>
    /\ clock = 0
    /\ deliveries = {}
    /\ postReq = <<>>
    /\ postResp = <<>>
    /\ task = <<>>
    /\ effects = <<>>
    /\ gatewayCalls = <<>>
    /\ dispatches = <<>>
    /\ faults = 0

InitSig ==
    /\ \E p \in SigBodies, s \in SigSecrets :
         \E g \in SignaturesFor(p, s) :
            sigIn = [payload |-> p, signature |-> g, appSecret |-> s]
    /\ sigOut = SigPending
    /\ GetIdle
    /\ PostIdle

NextSig == VerifySignatureCall

SpecSig == InitSig /\ [][NextSig]_vars

InitVerify ==
    /\ SigIdle
    /\ dbUrl \in BOOLEAN
    /\ \E s1 \in Statuses, s2 \in Statuses, s3 \in Statuses,
          t3 \in { "tokB", Undefined } :
          accounts = IF dbUrl THEN VerifyAccounts(s1, s2, s3, t3) ELSE <<>>
    /\ envTokens \in [whatsapp : { Undefined, "", "tokE" },
                      webhook  : { Undefined, "tokW" }]
    /\ \E q \in [mode : GetModes, token : GetTokens,
                  challenge : GetChallenges, queryFails : BOOLEAN],
          o \in OtherGetRequests :
          getReq = [g \in GetIds |-> IF g = "g1" THEN q ELSE o]
    /\ getResp = [g \in GetIds |-> GetPending]
    /\ PostIdle

NextVerify ==
    \E g \in GetIds : GetWebhook(g) \/ VerifyGetDbClient(g) \/ VerifyQuery(g)

SpecVerify == InitVerify /\ [][NextVerify]_vars

Init ==
    /\ SigIdle
    /\ envTokens = [whatsapp |-> Undefined, webhook |-> Undefined]
    /\ getReq = [g \in GetIds |-> GetNoRequest]
    /\ getResp = [g \in GetIds |-> GetPending]
    /\ dbUrl \in BOOLEAN
    /\ \E s1 \in Statuses, s2 \in Statuses :
          accounts = IF dbUrl THEN PostAccounts(s1, s2, "active") ELSE <<>>
    /\ chatbots = IF dbUrl THEN PostChatbots ELSE <<>>
    /\ contacts = <<>>
    /\ messages = <<>>
    /\ clock = ClockStart
    /\ deliveries = { 1 }
    /\ postReq \in [deliveries -> Requests]
    /\ postResp = [d \in deliveries |-> PostPending]
    /\ task = [d \in deliveries |-> TaskNone]
    /\ effects = <<>>
    /\ gatewayCalls = <<>>
    /\ dispatches = <<>>
    /\ faults = 0

Next ==
    \/ \E d \in deliveries : PostWebhook(d)
    \/ \E d \in deliveries : GetDbClient(d)
    \/ \E d \in deliveries : LookupAccounts(d)
    \/ \E d \in deliveries : MsgBegin(d)
    \/ \E d \in deliveries : SelectContact(d)
    \/ \E d \in deliveries : UpsertContact(d)
    \/ \E d \in deliveries : InsertUserMessage(d)
    \/ \E d \in deliveries : SelectChatbot(d)
    \/ \E d \in deliveries : SelectHistory(d)
    \/ \E d \in deliveries : CallGateway(d)
    \/ \E d \in deliveries : SendReply(d)
    \/ \E d \in deliveries : InsertAssistant(d)
    \/ \E d \in deliveries : SendApology(d)
    \/ \E d \in deliveries : SendHangs(d)
    \/ \E d \in deliveries : ProcessStatus(d)

Spec == Init /\ [][Next]_vars

\* The same program on unsigned deliveries of one change for the routing key
\* pn1, held by one or two active tenants.
TypedRequests ==
    { Request(PostBody,
              Envelope(<<Entry(<<Chg("messages", "pn1", ms, ss)>>)>>),
              NoHeader, <<>>) :
        ms \in MessageLists, ss \in StatusLists }

InitTyped ==
    /\ SigIdle
    /\ envTokens = [whatsapp |-> Undefined, webhook |-> Undefined]
    /\ getReq = [g \in GetIds |-> GetNoRequest]
    /\ getResp = [g \in GetIds |-> GetPending]
    /\ dbUrl = TRUE
    /\ \E s2 \in Statuses : accounts = PostAccounts("active", s2, "active")
    /\ chatbots = PostChatbots
    /\ contacts = <<>>
    /\ messages = <<>>
    /\ clock = ClockStart
    /\ deliveries = { 1 }
    /\ postReq \in [deliveries -> TypedRequests]
    /\ postResp = [d \in deliveries |-> PostPending]
    /\ task = [d \in deliveries |-> TaskNone]
    /\ effects = <<>>
    /\ gatewayCalls = <<>>
    /\ dispatches = <<>>
    /\ faults = 0

SpecTyped == InitTyped /\ [][Next]_vars

\* The same program on deliveries whose first message is of any type: every
\* type of the switch and one it does not know, with the field the type
\* reads absent, empty or filled; the bot of the second tenant may be absent
\* or have an empty API key.
MessageTypes ==
    { "text", "image", "audio", "video", "document", "location", "button",
      "interactive", "sticker" }

InteractiveTypes == { "button_reply", "list_reply", "nfm_reply", Undefined }

\* The coordinates of a location, as the projection writes them.
Coordinates == "52.5, 13.4"

AnyMessages ==
    { Message("u1", "wamid.in1", Num(100), ty, sub, arg) :
        ty \in MessageTypes,
        sub \in InteractiveTypes,
        arg \in { Undefined, "", "hi", Coordinates } }

TypeMessages ==
    { m \in AnyMessages :
        /\ m.type # "interactive" => m.sub = Undefined
        /\ m.type = "location" => m.arg \in { Undefined, Coordinates }
        /\ m.type # "location" => m.arg # Coordinates }

TypeRequests ==
    { Request(PostBody,
              Envelope(<<Entry(<<Chg("messages", "pn1", ms, ss)>>)>>),
              NoHeader, <<>>) :
        ms \in { <<m>> : m \in TypeMessages }
               \cup { <<m, Message("u1", "wamid.in2", Num(110), "text",
                                    Undefined, "hello")>> :
                        m \in TypeMessages },
        ss \in StatusLists }

\* The chatbot tables tried: every tenant's bot has its row (the foreign key
\* of whatsapp_accounts.chatbot_id), the API key of bot2 is set, empty or
\* null, the one of bot3 set or null.
ChatbotFixtures ==
    { PostChatbots,
      << [id |-> "bot1", api_key |-> "key1"],
         [id |-> "bot2", api_key |-> ""],
         [id |-> "bot3", api_key |-> "key3"] >>,
      << [id |-> "bot1", api_key |-> "key1"],
         [id |-> "bot2", api_key |-> Undefined],
         [id |-> "bot3", api_key |-> Undefined] >> }

InitTypes ==
    /\ SigIdle
    /\ envTokens = [whatsapp |-> Undefined, webhook |-> Undefined]
    /\ getReq = [g \in GetIds |-> GetNoRequest]
    /\ getResp = [g \in GetIds |-> GetPending]
    /\ dbUrl = TRUE
    /\ \E s2 \in Statuses : accounts = PostAccounts("active", s2, "active")
    /\ chatbots \in ChatbotFixtures
    /\ contacts = <<>>
    /\ messages = <<>>
    /\ clock = ClockStart
    /\ deliveries = { 1 }
    /\ postReq \in [deliveries -> TypeRequests]
    /\ postResp = [d \in deliveries |-> PostPending]
    /\ task = [d \in deliveries |-> TaskNone]
    /\ effects = <<>>
    /\ gatewayCalls = <<>>
    /\ dispatches = <<>>
    /\ faults = 0

SpecTypes == InitTypes /\ [][Next]_vars

\* The same program on conversations: deliveries of three texts whose
\* timestamps go back and forth, from one number or two, and one more text
\* in a conversation the store already holds rows of.
ConvLists ==
    { << Message("u1", "wamid.in1", Num(100), "text", Undefined, "hello"),
         Message("u1", "wamid.in2", Num(110), "text", Undefined, "again"),
         Message("u1", "wamid.in3", Num(90), "text", Undefined, "bye") >>,
      << Message("u1", "wamid.in1", Num(100), "text", Undefined, "hello"),
         Message("u2", "wamid.in2", Num(120), "text", Undefined, "hola"),
         Message("u1", "wamid.in3", Num(90), "text", Undefined, "again") >> }

ConvRequests ==
    { Request(PostBody,
              Envelope(<<Entry(<<Chg("messages", "pn1", ms, <<>>)>>)>>),
              NoHeader, <<>>) :
        ms \in ConvLists }

\* The longest conversation the store holds at the start.
MaxSeed == 12

SeedSizes == { 0, 1, HistoryLimit - 1, HistoryLimit, MaxSeed }

\* Row k of the stored conversation of (bot1, u1): inbound and assistant rows
\* in turn, the assistant rows stamped by a clock behind the provider's, so
\* that the table order is not the order of created_at.
SeedRow(k) ==
    LET acct == PostAccounts("active", "active", "active")[1]
        m    == Message("u1", "wamid.old" \o ToString(k), Num(10 * k), "text",
                        Undefined, "m" \o ToString(k))
    IN  IF k % 2 = 1
        THEN UserRow(acct, m, 1)
        ELSE StoredAssistantRow(acct, m, 1, "r" \o ToString(k),
                                "wamid.r" \o ToString(k), 10 * k - 15)

SeedRows(n) == [k \in 1..n |-> SeedRow(k)]

\* The contact the stored conversation belongs to.
SeedContacts(n) ==
    IF n = 0 THEN <<>>
    ELSE << [id |-> 1, chatbot_id |-> "bot1", phone_number |-> "u1",
             display_name |-> "Ann",
             meta |-> [wa_id |-> "u1", first_seen_at |-> 10,
                       last_seen_at |-> 10 * n,
                       last_inbound_message_id |-> "wamid.old1",
                       phone_number_id |-> "pn1", source |-> "organic",
                       opt_in_status |-> TRUE]] >>

SeedRequests ==
    { Request(PostBody,
              Envelope(<<Entry(<<Chg("messages", "pn1",
                    << Message("u1", "wamid.in1", Num(100), "text", Undefined,
                               "hello") >>, ss)>>)>>),
              NoHeader, <<>>) :
        ss \in StatusLists }

InitConv ==
    /\ SigIdle
    /\ envTokens = [whatsapp |-> Undefined, webhook |-> Undefined]
    /\ getReq = [g \in GetIds |-> GetNoRequest]
    /\ getResp = [g \in GetIds |-> GetPending]
    /\ dbUrl = TRUE
    /\ \E s2 \in Statuses : accounts = PostAccounts("active", s2, "active")
    /\ chatbots = PostChatbots
    /\ clock = ClockStart
    /\ deliveries = { 1 }
    /\ \/ /\ contacts = <<>>
          /\ messages = <<>>
          /\ postReq \in [deliveries -> ConvRequests]
       \/ /\ \E n \in SeedSizes :
                /\ contacts = SeedContacts(n)
                /\ messages = SeedRows(n)
          /\ postReq \in [deliveries -> SeedRequests]
    /\ postResp = [d \in deliveries |-> PostPending]
    /\ task = [d \in deliveries |-> TaskNone]
    /\ effects = <<>>
    /\ gatewayCalls = <<>>
    /\ dispatches = <<>>
    /\ faults = 0

SpecConv == InitConv /\ [][Next]_vars

\* The same program on delivery-status events: the store holds the rows of
\* an earlier inbound message and its reply, for one tenant, for the two
\* tenants that share the routing key, or twice for one tenant (the provider
\* delivered the webhook twice); the events name the inbound message, the
\* reply of the first tenant, or a message the store does not hold.
StatusSeedMessage == Message("u1", "wamid.in0", Num(50), "text", Undefined, "hey")

StatusSeedPair(k, createdAt, replyId) ==
    LET acct == PostAccounts("active", "active", "active")[k] IN
    << UserRow(acct, StatusSeedMessage, k),
       StoredAssistantRow(acct, StatusSeedMessage, k, "reply", replyId,
                          createdAt) >>

StatusSeedContact(id, k) ==
    [id |-> id, chatbot_id |-> "bot" \o ToString(k), phone_number |-> "u1",
     display_name |-> "Annie",
     meta |-> [wa_id |-> "u1", first_seen_at |-> 50, last_seen_at |-> 50,
               last_inbound_message_id |-> "wamid.in0",
               phone_number_id |-> "pn1", source |-> "organic",
               opt_in_status |-> TRUE]]

StatusSeeds ==
    { [contacts |-> <<>>, messages |-> <<>>],
      [contacts |-> <<StatusSeedContact(1, 1)>>,
       messages |-> StatusSeedPair(1, 60, "wamid.out1")],
      [contacts |-> <<StatusSeedContact(1, 1), StatusSeedContact(2, 2)>>,
       messages |-> StatusSeedPair(1, 60, "wamid.out1")
                    \o StatusSeedPair(2, 70, "wamid.out2")],
      [contacts |-> <<StatusSeedContact(1, 1)>>,
       messages |-> StatusSeedPair(1, 60, "wamid.out1")
                    \o StatusSeedPair(1, 80, "wamid.out3")] }

SeedStatusKinds ==
    { [id |-> id, status |-> s] :
        id \in { "wamid.in0", "wamid.out1", "wamid.none" },
        s \in { "delivered", "failed" } }

StatusRequests ==
    { Request(PostBody,
              Envelope(<<Entry(<<Chg("messages", "pn1", ms, ss)>>)>>),
              NoHeader, <<>>) :
        ms \in { <<>>, << Message("u1", "wamid.in1", Num(100), "text", Undefined,
                                  "hello") >> },
        ss \in SeqsUpTo(SeedStatusKinds, MaxStatuses) }

InitStatus ==
    /\ SigIdle
    /\ envTokens = [whatsapp |-> Undefined, webhook |-> Undefined]
    /\ getReq = [g \in GetIds |-> GetNoRequest]
    /\ getResp = [g \in GetIds |-> GetPending]
    /\ dbUrl = TRUE
    /\ \E s2 \in Statuses : accounts = PostAccounts("active", s2, "active")
    /\ chatbots = PostChatbots
    /\ clock = ClockStart
    /\ deliveries = { 1 }
    /\ \E seed \in StatusSeeds :
        /\ contacts = seed.contacts
        /\ messages = seed.messages
    /\ postReq \in [deliveries -> StatusRequests]
    /\ postResp = [d \in deliveries |-> PostPending]
    /\ task = [d \in deliveries |-> TaskNone]
    /\ effects = <<>>
    /\ gatewayCalls = <<>>
    /\ dispatches = <<>>
    /\ faults = 0

SpecStatus == InitStatus /\ [][Next]_vars

\* Two deliveries.  The first has come to a halt: its task handled the text
\* of u1 for acct1 and waits for the send of the reply for acct2, its last
\* tenant, a send the provider never answers.  The second arrives now, with
\* a text of u2 for the same routing key and any statuses.
HungMessage == Message("u1", "wamid.in1", Num(100), "text", Undefined, "hello")

HungRequest ==
    Request(PostBody,
            Envelope(<<Entry(<<Chg("messages", "pn1", <<HungMessage>>,
                                   <<>>)>>)>>),
            NoHeader, <<>>)

SecondRequests ==
    { Request(PostBody,
              Envelope(<<Entry(<<Chg("messages", "pn1",
                    << Message("u2", "wamid.in2", Num(110), "text", Undefined,
                               "hola") >>, ss)>>)>>),
              NoHeader, <<>>) :
        ss \in ShortStatusLists }

HungAccounts == PostAccounts("active", "active", "active")

\* What the first task logged up to the send that hangs.
HungEvent(a, acct, i, phase, op) ==
    [d |-> 1, e |-> 1, c |-> 1, a |-> a, i |-> i, acct |-> acct,
     phase |-> phase, op |-> op]

HungEffects ==
    LET ops1 == << "begin", "selectContact", "insertContact", "insertUser",
                   "selectChatbot", "selectHistory", "gateway", "dispatch",
                   "error", "dispatch" >>
        ops2 == << "begin", "selectContact", "insertContact", "insertUser",
                   "selectChatbot", "selectHistory", "gateway", "hang" >>
    IN  << HungEvent(0, "-", 0, "lookup", "lookup") >>
        \o [k \in 1..Len(ops1) |-> HungEvent(1, "acct1", 1, "msg", ops1[k])]
        \o [k \in 1..Len(ops2) |-> HungEvent(2, "acct2", 1, "msg", ops2[k])]

\* What the first task wrote: the contact of u1 for each bot and the inbound
\* rows; the INSERT of the assistant row of bot1 was rejected.
HungContact(id, chatbotId) ==
    [id |-> id, chatbot_id |-> chatbotId, phone_number |-> "u1",
     display_name |-> "Ann",
     meta |-> [wa_id |-> "u1", first_seen_at |-> 100, last_seen_at |-> 100,
               last_inbound_message_id |-> "wamid.in1",
               phone_number_id |-> "pn1", source |-> "organic",
               opt_in_status |-> TRUE]]

HungMessages ==
    << UserRow(HungAccounts[1], HungMessage, 1),
       UserRow(HungAccounts[2], HungMessage, 2) >>

HungGatewayCall(k) ==
    [d |-> 1, e |-> 1, c |-> 1, i |-> 1, acct |-> HungAccounts[k].id,
     outcome |-> "ok", query |-> <<[role |-> "user", content |-> "hello"]>>,
     uniqueClientId |-> UniqueConvId("u1", HungAccounts[k].chatbot_id),
     converslyWebId |-> PostChatbots[k].api_key, phoneNumber |-> "u1",
     chatbotId |-> HungAccounts[k].chatbot_id]

HungDispatches ==
    << [d |-> 1, e |-> 1, c |-> 1, i |-> 1, acct |-> "acct1", ok |-> TRUE,
        phoneNumberId |-> "pn1", accessToken |-> "token1", to |-> "u1",
        message |-> GatewayReply],
       [d |-> 1, e |-> 1, c |-> 1, i |-> 1, acct |-> "acct1", ok |-> TRUE,
        phoneNumberId |-> "pn1", accessToken |-> "token1", to |-> "u1",
        message |-> ApologyCatch] >>

HungTask ==
    [pc |-> "hung", e |-> 1, c |-> 1, a |-> 2, i |-> 1,
     rows |-> <<HungAccounts[1], HungAccounts[2]>>,
     loc |-> [found |-> FALSE, contactId |-> 2, apiKey |-> "key2",
              history |-> <<[role |-> "user", content |-> "hello"]>>,
              reply |-> GatewayReply, citations |-> NoCitations,
              msgId |-> Undefined]]

InitTwo ==
    /\ SigIdle
    /\ envTokens = [whatsapp |-> Undefined, webhook |-> Undefined]
    /\ getReq = [g \in GetIds |-> GetNoRequest]
    /\ getResp = [g \in GetIds |-> GetPending]
    /\ dbUrl = TRUE
    /\ accounts = HungAccounts
    /\ chatbots = PostChatbots
    /\ contacts = <<HungContact(1, "bot1"), HungContact(2, "bot2")>>
    /\ messages = HungMessages
    /\ clock = ClockStart + 1
    /\ deliveries = { 1, 2 }
    /\ \E r2 \in SecondRequests : postReq = <<HungRequest, r2>>
    /\ postResp = <<[status |-> 200, success |-> TRUE,
                     text |-> "Webhook received"], PostPending>>
    /\ task = <<HungTask, TaskNone>>
    /\ effects = HungEffects
    /\ gatewayCalls = <<HungGatewayCall(1), HungGatewayCall(2)>>
    /\ dispatches = HungDispatches
    /\ faults = 0

SpecTwo == InitTwo /\ [][Next]_vars

\* Two deliveries that race on one contact.  Both carry a first text of u1
\* for the routing key pn2.  The task of the first has run its SELECT of the
\* contact, which found no row, and stands before its INSERT; the second
\* delivery arrives now, and goes on to a text for pn1.
RaceMessage(k) ==
    Message("u1", "wamid.in" \o ToString(k), Num(100), "text", Undefined, "hello")

RaceRequest ==
    Request(PostBody,
            Envelope(<<Entry(<<Chg("messages", "pn2", <<RaceMessage(1)>>,
                                   <<>>)>>)>>),
            NoHeader, <<>>)

RaceSecondRequests ==
    { Request(PostBody,
              Envelope(<<Entry(<<Chg("messages", "pn2", <<RaceMessage(2)>>,
                                     <<>>)>>),
                         Entry(<<Chg("messages", "pn1", <<RaceMessage(2)>>,
                                     ss)>>)>>),
              NoHeader, <<>>) :
        ss \in ShortStatusLists }

RaceAccounts == PostAccounts("active", "inactive", "active")

RaceEffects ==
    << [d |-> 1, e |-> 1, c |-> 1, a |-> 0, i |-> 0, acct |-> "-",
        phase |-> "lookup", op |-> "lookup"],
       [d |-> 1, e |-> 1, c |-> 1, a |-> 1, i |-> 1, acct |-> "acct3",
        phase |-> "msg", op |-> "begin"],
       [d |-> 1, e |-> 1, c |-> 1, a |-> 1, i |-> 1, acct |-> "acct3",
        phase |-> "msg", op |-> "selectContact"] >>

RaceTask ==
    [pc |-> "upsertContact", e |-> 1, c |-> 1, a |-> 1, i |-> 1,
     rows |-> <<RaceAccounts[3]>>, loc |-> LocNone]

InitRace ==
    /\ SigIdle
    /\ envTokens = [whatsapp |-> Undefined, webhook |-> Undefined]
    /\ getReq = [g \in GetIds |-> GetNoRequest]
    /\ getResp = [g \in GetIds |-> GetPending]
    /\ dbUrl = TRUE
    /\ accounts = RaceAccounts
    /\ chatbots = PostChatbots
    /\ contacts = <<>>
    /\ messages = <<>>
    /\ clock = ClockStart
    /\ deliveries = { 1, 2 }
    /\ \E r2 \in RaceSecondRequests : postReq = <<RaceRequest, r2>>
    /\ postResp = <<[status |-> 200, success |-> TRUE,
                     text |-> "Webhook received"], PostPending>>
    /\ task = <<RaceTask, TaskNone>>
    /\ effects = RaceEffects
    /\ gatewayCalls = <<>>
    /\ dispatches = <<>>
    /\ faults = 0

SpecRace == InitRace /\ [][Next]_vars

(***************************************************************************)
(* Properties of POST /webhook and its background task (Spec)              *)
(***************************************************************************)

Ack == [status |-> 200, success |-> TRUE, text |-> "Webhook received"]

\* The positions inside the loop over accountResult.rows.
UnitPcs == { "msg", "selContact", "upsertContact", "insertUser", "selChatbot",
             "selHistory", "gateway", "sendReply", "insertAssistant",
             "apologyGw", "apologyCatch", "status", "hung" }

Spawned(d) == task[d].pc \notin { "none", "rejected", "ignored" }

\* The ids of the tenant rows with this routing key and status active.
ExpectedTenants(key) ==
    { accounts[k].id : k \in { j \in 1..Len(accounts) :
                                  /\ accounts[j].phone_number_id = key
                                  /\ accounts[j].status = "active" } }

AccountById(id) ==
    accounts[CHOOSE k \in 1..Len(accounts) : accounts[k].id = id]

ChangeAt(d, e, c) == postReq[d].payload.entry[e].changes[c]

\* The changes of a delivery that carry messages for a routing key.
MessageChanges(d) ==
    { ec \in UNION { { <<e, c>> : c \in 1..Len(postReq[d].payload.entry[e].changes) } :
                        e \in 1..Len(postReq[d].payload.entry) } :
        /\ ChangeAt(d, ec[1], ec[2]).field = "messages"
        /\ Truthy(ChangeAt(d, ec[1], ec[2]).value.phone_number_id) }

\* The events logged for one element of one tenant of one change.
UnitEvents(d, e, c, acct, phase, i) ==
    SelectSeq(effects, LAMBDA ev :
        /\ ev.d = d /\ ev.e = e /\ ev.c = c /\ ev.acct = acct
        /\ ev.phase = phase /\ ev.i = i)

CountOp(evs, op) == Len(SelectSeq(evs, LAMBDA ev : ev.op = op))

\* C1: once handleWebhookMessage has been called for a request, the response
\* 200 {success:true, message:'Webhook received'} has been sent, wherever
\* the background task stands: running, finished or rejected.
C1_AckNotAwaited ==
    \A d \in deliveries :
        LET r == postReq[d] IN
        /\ Spawned(d) => postResp[d] = Ack
        /\ (/\ task[d].pc # "none"
            /\ r.payload.object = WhatsAppObject
            /\ \/ ~r.signature.present
               \/ r.signature.chars = <<>>
               \/ r.appSecret = <<>>
               \/ RightlySigned(r))
           => Spawned(d) /\ postResp[d] = Ack

C1_Witness ==
    \E d \in deliveries :
        /\ task[d].pc = "failed"
        /\ faults > 0
        /\ postResp[d] = Ack

\* C2: when the task is done, every tenant matched by a change has had each
\* message of the change handed to processIncomingMessage exactly once; and
\* for a message that is replied to and met no collaborator error, the tenant
\* has its own user row (its bot id, its conversation marker) and, its bot
\* having an API key, its own Response Gateway call.
C2_EachTenantProcessed ==
    \A d \in deliveries :
        task[d].pc = "done" /\ dbUrl =>
        \A ec \in MessageChanges(d) :
            LET ch == ChangeAt(d, ec[1], ec[2]) IN
            \A id \in ExpectedTenants(ch.value.phone_number_id) :
            \A i \in 1..Len(ch.value.messages) :
                LET m    == ch.value.messages[i]
                    bot  == AccountById(id).chatbot_id
                    evs  == UnitEvents(d, ec[1], ec[2], id, "msg", i)
                    keys == SelectSeq(chatbots, LAMBDA b :
                                b.id = bot /\ Truthy(b.api_key))
                IN  /\ CountOp(evs, "begin") = 1
                    /\ (/\ m.type \in RepliedTypes
                        /\ MessageContent(m) # ""
                        /\ CountOp(evs, "error") = 0
                        => /\ CountOp(evs, "insertUser") = 1
                           /\ \E k \in 1..Len(messages) :
                                /\ messages[k].type = "user"
                                /\ messages[k].chatbot_id = bot
                                /\ messages[k].unique_conv_id =
                                        "whatsapp_" \o m.from \o "_" \o bot
                                /\ messages[k].content = MessageContent(m)
                                /\ messages[k].meta.waMessageId = m.id
                           /\ (keys # <<>> =>
                                /\ CountOp(evs, "gateway") = 1
                                /\ \E g \in 1..Len(gatewayCalls) :
                                    /\ gatewayCalls[g].acct = id
                                    /\ gatewayCalls[g].chatbotId = bot
                                    /\ gatewayCalls[g].converslyWebId =
                                            keys[1].api_key))

C2_Witness ==
    \E d \in deliveries :
        /\ task[d].pc = "done"
        /\ faults = 0
        /\ Cardinality(ExpectedTenants("pn1")) = 2
        /\ \E k, l \in 1..Len(messages) :
            /\ messages[k].type = "user" /\ messages[k].chatbot_id = "bot1"
            /\ messages[l].type = "user" /\ messages[l].chatbot_id = "bot2"
            /\ messages[k].meta.waMessageId = messages[l].meta.waMessageId
            /\ messages[k].unique_conv_id # messages[l].unique_conv_id
        /\ \E g, h \in 1..Len(gatewayCalls) :
            /\ gatewayCalls[g].acct = "acct1"
            /\ gatewayCalls[h].acct = "acct2"

\* C3: the rows a change is processed for are exactly the tenant rows with
\* its routing key and status active, each once; every query, write, gateway
\* call and dispatch is made for such a tenant; and when the task is done the
\* tenants whose messages were handled are exactly those rows.
C3_ResolutionExact ==
    /\ \A d \in deliveries :
        task[d].pc \in UnitPcs =>
            LET want == ExpectedTenants(
                            ChangeAt(d, task[d].e, task[d].c).value.phone_number_id)
            IN  /\ { task[d].rows[k].id : k \in 1..Len(task[d].rows) } = want
                /\ Len(task[d].rows) = Cardinality(want)
    /\ \A u \in { <<effects[k].d, effects[k].e, effects[k].c, effects[k].acct>> :
                    k \in 1..Len(effects) } :
        u[4] \notin { "-", "env-account" } =>
            u[4] \in ExpectedTenants(
                        ChangeAt(u[1], u[2], u[3]).value.phone_number_id)
    /\ \A id \in { gatewayCalls[k].acct : k \in 1..Len(gatewayCalls) }
                \cup { dispatches[k].acct : k \in 1..Len(dispatches) } :
        AccountById(id).status = "active"
    /\ \A d \in deliveries :
        task[d].pc = "done" /\ dbUrl =>
        \A ec \in MessageChanges(d) :
            Len(ChangeAt(d, ec[1], ec[2]).value.messages) > 0 =>
                { effects[k].acct : k \in { j \in 1..Len(effects) :
                        /\ effects[j].d = d /\ effects[j].e = ec[1]
                        /\ effects[j].c = ec[2] /\ effects[j].op = "begin" } }
                = ExpectedTenants(ChangeAt(d, ec[1], ec[2]).value.phone_number_id)

C3_Witness ==
    \E d \in deliveries :
        /\ task[d].pc = "done"
        /\ Len(accounts) >= 2
        /\ accounts[1].status = "active"
        /\ accounts[2].status = "inactive"
        /\ accounts[1].phone_number_id = accounts[2].phone_number_id
        /\ \E k \in 1..Len(effects) :
            effects[k].acct = "acct1" /\ effects[k].op = "insertUser"
        /\ \E k \in 1..Len(dispatches) : dispatches[k].acct = "acct1"

\* C4: an error inside processIncomingMessage (which runs when there is a
\* database) never rejects the task: the task fails only on an envelope
\* without entries or on a failed tenant lookup; and when the task is done
\* every message and every status of every matched tenant has been handled,
\* whatever errors the elements before it met.
C4_FailureIsolated ==
    \A d \in deliveries :
        /\ task[d].pc = "failed" /\ dbUrl =>
            \/ ~postReq[d].payload.hasEntry
            \/ /\ effects # <<>>
               /\ effects[Len(effects)].phase = "lookup"
               /\ effects[Len(effects)].op = "error"
        /\ task[d].pc = "done" /\ dbUrl =>
            \A ec \in MessageChanges(d) :
                LET ch == ChangeAt(d, ec[1], ec[2]) IN
                \A id \in ExpectedTenants(ch.value.phone_number_id) :
                    /\ \A i \in 1..Len(ch.value.messages) :
                        CountOp(UnitEvents(d, ec[1], ec[2], id, "msg", i),
                                "begin") = 1
                    /\ \A i \in 1..Len(ch.value.statuses) :
                        Len(UnitEvents(d, ec[1], ec[2], id, "status", i)) = 1

C4_Witness ==
    \E d \in deliveries :
        /\ task[d].pc = "done"
        /\ \E k, l, n \in 1..Len(effects) :
            /\ k < l /\ l < n
            /\ effects[k].op = "error" /\ effects[k].phase = "msg"
            /\ effects[k].acct = "acct1"
            /\ effects[l].op = "dispatch" /\ effects[l].acct = "acct1"
            /\ effects[n].op = "insertUser" /\ effects[n].acct = "acct2"
        /\ \E k \in 1..Len(effects) :
            effects[k].phase = "status" /\ effects[k].acct = "acct2"
        /\ \E q \in 1..Len(dispatches) :
            dispatches[q].message = ApologyCatch /\ ~dispatches[q].ok

\* The place of an event in the loops: change, tenant, messages before
\* statuses, array index.  A message logs several events, a status one.
Before(x, y) ==
    \/ x.e < y.e
    \/ x.e = y.e /\ x.c < y.c
    \/ x.e = y.e /\ x.c = y.c /\ x.a < y.a
    \/ /\ x.e = y.e /\ x.c = y.c /\ x.a = y.a
       /\ \/ x.phase = "msg" /\ y.phase = "msg" /\ x.i <= y.i
          \/ x.phase = "status" /\ y.phase = "status" /\ x.i < y.i
          \/ x.phase = "msg" /\ y.phase = "status"
          \/ x.phase = "lookup"

\* C5: the effects of one delivery occur in loop order: within a tenant the
\* messages in array order, each with all its effects before the next one
\* starts, and then the statuses in array order, one event each, no status
\* before the last effect of the last message.
C5_SequentialInArrayOrder ==
    \A k \in 1..(Len(effects) - 1) :
        effects[k].d = effects[k + 1].d => Before(effects[k], effects[k + 1])

C5_Witness ==
    \E d \in deliveries :
        /\ task[d].pc = "done"
        /\ \E k, l, n \in 1..Len(effects) :
            /\ k < l /\ l < n /\ n + 2 <= Len(effects)
            /\ effects[k].acct = "acct1" /\ effects[k].op = "dispatch"
            /\ effects[k].i = 1
            /\ effects[l].acct = "acct1" /\ effects[l].op = "begin"
            /\ effects[l].i = 2
            /\ effects[n].acct = "acct1" /\ effects[n].phase = "status"
            /\ effects[n].i = 1
            /\ effects[n + 1].acct = "acct1"
            /\ effects[n + 1].phase = "status" /\ effects[n + 1].i = 2
            /\ effects[n + 2].acct = "acct2" /\ effects[n + 2].phase = "msg"
        /\ Len(ChangeAt(d, 1, 1).value.statuses) = 2
        /\ ChangeAt(d, 1, 1).value.statuses[1].status = "delivered"
        /\ ChangeAt(d, 1, 1).value.statuses[2].status = "read"

\* C6: a request with a signature header and a configured secret whose
\* signature is not the expected one is answered 401 'Invalid signature' and
\* starts nothing: no task, no lookup, no write, no gateway call, no
\* dispatch.
C6_InvalidSignatureRejected ==
    \A d \in deliveries :
        LET r == postReq[d] IN
        /\ task[d].pc # "none"
        /\ r.signature.present /\ r.signature.chars # <<>>
        /\ r.appSecret # <<>>
        /\ ~RightlySigned(r)
        => /\ postResp[d] = [status |-> 401, success |-> FALSE,
                             text |-> "Invalid signature"]
           /\ task[d].pc = "rejected"
           /\ \A k \in 1..Len(effects) : effects[k].d # d
           /\ \A k \in 1..Len(gatewayCalls) : gatewayCalls[k].d # d
           /\ \A k \in 1..Len(dispatches) : dispatches[k].d # d
           /\ contacts = <<>> /\ messages = <<>>

C6_Witness ==
    \E d \in deliveries :
        /\ task[d].pc = "rejected"
        /\ postReq[d].payload.object = WhatsAppObject
        /\ Len(postReq[d].signature.chars) =
                Len(Sha256Prefix) + DigestHexLen
        /\ postResp[d].status = 401

(***************************************************************************)
(* Properties of the signature verifier (SpecSig)                          *)
(***************************************************************************)

\* The signature the caller of verifyWebhookSignature has to present: the
\* reference value of KnownSignatures, not one this module computed.
SigExpected == KnownSignature(sigIn.payload, sigIn.appSecret)

\* C7: the signature 'sha256=' + hex(HMAC-SHA256(secret, body)), taken from
\* the reference values of KnownSignatures, verifies, and every other
\* signature string of the same length is rejected.
C7_SignatureRoundTrip ==
    sigOut.done =>
        /\ (sigIn.signature = Str(SigExpected) => sigOut.r.result)
        /\ (/\ sigIn.signature.kind = "string"
            /\ Len(sigIn.signature.chars) = Len(SigExpected)
            /\ sigIn.signature.chars # SigExpected
            => ~sigOut.r.result)

\* The header of RFC 4231, test case 2, is accepted for its key and text,
\* and so is the one of a body of more than one block under a key of more
\* than one block.
C7_Witness ==
    /\ sigOut.done
    /\ sigIn.signature = Str(SigExpected)
    /\ \/ sigIn.payload = BodyRfc /\ sigIn.appSecret = SecretRfc
       \/ sigIn.payload = BodyEnvelope /\ sigIn.appSecret = SecretLong
    /\ sigOut.r.result

\* C8: verifyWebhookSignature never raises; a signature whose buffer length
\* differs from the expected one's is rejected before timingSafeEqual is
\* called, a signature of another string length is rejected, and an internal
\* error (the catch block) yields false.
C8_NeverRaisesLengthShortCircuit ==
    sigOut.done =>
        /\ ~sigOut.r.raised
        /\ (/\ ~BufferFromValue(sigIn.signature).threw
            /\ Len(BufferFromValue(sigIn.signature).buf)
                    # Len(BufferFrom(SigExpected))
            => ~sigOut.r.result /\ ~sigOut.r.compared /\ ~sigOut.r.caught)
        /\ (/\ sigIn.signature.kind = "string"
            /\ Len(sigIn.signature.chars) # Len(SigExpected)
            => ~sigOut.r.result)
        /\ (sigOut.r.caught => ~sigOut.r.result)

C8_Witness ==
    /\ sigOut.done
    /\ sigIn.signature.kind = "string"
    /\ Len(sigIn.signature.chars) = Len(SigExpected) + 1
    /\ ~sigOut.r.result
    /\ ~sigOut.r.compared

(***************************************************************************)
(* Properties of GET /webhook (SpecVerify)                                 *)
(***************************************************************************)

GetDone(g) == getResp[g].pc = "responded"

\* The requests interleave: one is answered while another waits for its
\* query.
GetInterleaved ==
    \E g \in GetIds, h \in GetIds :
        getResp[g].pc = "query" /\ getResp[h].pc = "responded"

\* C9: with hub.mode=subscribe and a token that is the verify token of an
\* active tenant (and a lookup that does not fail), the answer is 200 and its
\* body is exactly the challenge string.
C9_ChallengeEchoed ==
    \A g \in GetIds :
        /\ GetDone(g)
        /\ getReq[g].mode = "subscribe"
        /\ getReq[g].token \in ActiveTenantTokens
        /\ getReq[g].challenge # Undefined
        /\ ~(dbUrl /\ getReq[g].queryFails)
        => getResp[g].status = 200 /\ getResp[g].body = getReq[g].challenge

C9_Witness ==
    /\ GetDone("g1")
    /\ dbUrl
    /\ getReq["g1"].mode = "subscribe"
    /\ getReq["g1"].token = "tokB"
    /\ accounts[2].status = "inactive"
    /\ accounts[3].status = "active"
    /\ getReq["g1"].challenge = "abc123"
    /\ getResp["g1"] = Responded([status |-> 200, body |-> "abc123",
                                  lookups |-> 1])
    /\ getResp["g2"].pc = "query"

\* C10: the answer is 403 'Forbidden' when hub.mode is not 'subscribe' (no
\* token lookup is made then), and when no active tenant has the token.
C10_ForbiddenWithoutActiveToken ==
    \A g \in GetIds :
        GetDone(g) =>
            /\ (getReq[g].mode # "subscribe" =>
                    getResp[g] = Responded([status |-> 403,
                                            body |-> "Forbidden",
                                            lookups |-> 0]))
            /\ (getReq[g].token \notin ActiveTenantTokens =>
                    getResp[g].status = 403 /\ getResp[g].body = "Forbidden")

C10_Witness ==
    /\ GetDone("g1")
    /\ dbUrl
    /\ getReq["g1"].mode = "subscribe"
    /\ getReq["g1"].token = "tokA"
    /\ accounts[1].status = "inactive"
    /\ getResp["g1"] = Responded([status |-> 403, body |-> "Forbidden",
                                  lookups |-> 1])
    /\ getReq["g2"].mode = "unsubscribe"
    /\ getResp["g2"] = Responded([status |-> 403, body |-> "Forbidden",
                                  lookups |-> 0])

(***************************************************************************)
(* Properties of GET /webhook without a database (SpecVerify)              *)
(***************************************************************************)

\* C11: without a pool, handleWebhookVerify returns the challenge exactly
\* when the token is the one the environment configures (WHATSAPP_VERIFY_TOKEN
\* when it is set and non-empty, else WEBHOOK_VERIFY_TOKEN); it throws for
\* any other token, and for every token when neither is set.  No query is
\* made, and GET /webhook answers 200 with the challenge or 403 accordingly.
C11_EnvTokenFallback ==
    \A g \in GetIds :
        GetDone(g) /\ ~dbUrl =>
            LET r   == HandleWebhookVerify(getReq[g].token,
                                           getReq[g].challenge,
                                           getReq[g].queryFails)
                env == IF envTokens.whatsapp \notin { Undefined, "" }
                       THEN envTokens.whatsapp
                       ELSE envTokens.webhook
                ok  == env \notin { Undefined, "" } /\ getReq[g].token = env
            IN  /\ r.lookups = 0
                /\ getResp[g].lookups = 0
                /\ ok => ~r.threw /\ r.value = getReq[g].challenge
                /\ ~ok => r.threw
                /\ getReq[g].mode = "subscribe" =>
                     IF ok
                     THEN /\ getResp[g].status = 200
                          /\ getResp[g].body = SendBody(getReq[g].challenge)
                     ELSE getResp[g] = Responded([status |-> 403,
                                                  body |-> "Forbidden",
                                                  lookups |-> 0])

C11_Witness ==
    /\ GetDone("g1")
    /\ ~dbUrl
    /\ getReq["g1"].mode = "subscribe"
    /\ envTokens = [whatsapp |-> "", webhook |-> "tokW"]
    /\ getReq["g1"].token = "tokW"
    /\ getReq["g1"].challenge = "1158201444"
    /\ getResp["g1"] = Responded([status |-> 200, body |-> "1158201444",
                                  lookups |-> 0])

\* C12: with a database, when the verify-token lookup fails (no active row
\* holds the token, or the query errors), a token equal to
\* WHATSAPP_VERIFY_TOKEN is still verified: 200 with the challenge.
C12_EnvFallbackAfterLookupFailure ==
    \A g \in GetIds :
        /\ GetDone(g)
        /\ dbUrl
        /\ getReq[g].mode = "subscribe"
        /\ getReq[g].queryFails \/ getReq[g].token \notin ActiveTenantTokens
        /\ envTokens.whatsapp \notin { Undefined, "" }
        /\ getReq[g].token = envTokens.whatsapp
        => /\ getResp[g].status = 200
           /\ getResp[g].body = SendBody(getReq[g].challenge)

(***************************************************************************)
(* Properties of POST /webhook: envelopes that are not processed (Spec)    *)
(***************************************************************************)

NotWhatsApp ==
    [status |-> 200, success |-> TRUE, text |-> "Not a WhatsApp webhook event"]

\* Nothing was done for delivery d: no lookup, no query or write, no gateway
\* call, no dispatch.
Untouched(d) ==
    /\ \A k \in 1..Len(effects) : effects[k].d # d
    /\ \A k \in 1..Len(gatewayCalls) : gatewayCalls[k].d # d
    /\ \A k \in 1..Len(dispatches) : dispatches[k].d # d

\* The signature check of the handler lets the request through: no header,
\* no secret, or the right signature.
PassesSignatureCheck(r) ==
    \/ ~r.signature.present
    \/ r.signature.chars = <<>>
    \/ r.appSecret = <<>>
    \/ RightlySigned(r)

\* C13 as stated: every POST whose object tag is not
\* 'whatsapp_business_account' is answered 200 'Not a WhatsApp webhook
\* event' and starts no processing.
C13_AsStated ==
    \A d \in deliveries :
        task[d].pc # "none" /\ postReq[d].payload.object # WhatsAppObject
        => /\ postResp[d] = NotWhatsApp
           /\ ~Spawned(d)
           /\ Untouched(d)

\* C13 amended: a POST whose object tag is not 'whatsapp_business_account'
\* never starts handleWebhookMessage and causes no lookup, write, gateway
\* call or dispatch; it is answered 200 'Not a WhatsApp webhook event' when it
\* passes the signature check (and 401 when it does not).
C13_NonWhatsAppIgnored ==
    \A d \in deliveries :
        task[d].pc # "none" /\ postReq[d].payload.object # WhatsAppObject
        => /\ ~Spawned(d)
           /\ Untouched(d)
           /\ contacts = <<>> /\ messages = <<>>
           /\ IF PassesSignatureCheck(postReq[d])
              THEN postResp[d] = NotWhatsApp /\ task[d].pc = "ignored"
              ELSE postResp[d].status = 401 /\ task[d].pc = "rejected"

C13_Witness ==
    \E d \in deliveries :
        /\ task[d].pc = "ignored"
        /\ postReq[d].payload.object = "page"
        /\ postReq[d].signature.present
        /\ postReq[d].appSecret # <<>>
        /\ postResp[d] = NotWhatsApp

(***************************************************************************)
(* Properties of processIncomingMessage: the reply and the apology (Spec)  *)
(***************************************************************************)

\* The task of delivery d has left the handling of message i of change
\* (e, c) for tenant acct.
UnitFinished(d, e, c, acct, i) ==
    \/ task[d].pc \in { "done", "failed" }
    \/ task[d].pc \in UnitPcs /\
         ~(/\ task[d].e = e /\ task[d].c = c /\ Account(d).id = acct
           /\ task[d].i = i /\ task[d].pc # "status")

\* The dispatches made for one message of one tenant.
UnitDispatches(d, e, c, acct, i) ==
    SelectSeq(dispatches, LAMBDA x :
        /\ x.d = d /\ x.e = e /\ x.c = c /\ x.acct = acct /\ x.i = i)

\* C14: for every Response Gateway call that failed (success:false or no
\* reply text, or an error such as a timeout or a non-2xx answer), no reply
\* and never more than one apology is dispatched for that message, no
\* assistant row is inserted for it, and once its handling is over exactly one
\* dispatch was made: the apology of the else branch after success:false, the
\* apology of the catch block after an error.
C14_GatewayFailureApologisesOnce ==
    \A g \in 1..Len(gatewayCalls) :
        LET call == gatewayCalls[g]
            sent == UnitDispatches(call.d, call.e, call.c, call.acct, call.i)
            evs  == UnitEvents(call.d, call.e, call.c, call.acct, "msg", call.i)
        IN  call.outcome # "ok" =>
            /\ Len(sent) <= 1
            /\ \A k \in 1..Len(sent) :
                /\ sent[k].message = IF call.outcome = "soft"
                                     THEN ApologyGateway ELSE ApologyCatch
                /\ sent[k].to = call.phoneNumber
            /\ CountOp(evs, "insertAssistant") = 0
            /\ \A k \in 1..Len(messages) :
                messages[k].type = "assistant" =>
                    messages[k].unique_conv_id # call.uniqueClientId
                    \/ \E h \in 1..Len(gatewayCalls) :
                        /\ gatewayCalls[h].outcome = "ok"
                        /\ gatewayCalls[h].uniqueClientId = call.uniqueClientId
            /\ UnitFinished(call.d, call.e, call.c, call.acct, call.i)
                    => Len(sent) = 1

C14_Witness ==
    \E d \in deliveries :
        /\ task[d].pc = "done"
        /\ \E g \in 1..Len(gatewayCalls) :
            /\ gatewayCalls[g].outcome = "throw"
            /\ gatewayCalls[g].acct = "acct1"
            /\ Len(UnitDispatches(d, gatewayCalls[g].e, gatewayCalls[g].c,
                                  "acct1", gatewayCalls[g].i)) = 1
        /\ \E k \in 1..Len(dispatches) :
            dispatches[k].message = ApologyCatch /\ dispatches[k].acct = "acct1"
        /\ \E k \in 1..Len(effects) :
            effects[k].op = "insertUser" /\ effects[k].acct = "acct2"

\* C15: when the Response Gateway returned a reply and the handling of the
\* message is over (no collaborator failure having been injected), exactly
\* one dispatch carried the reply, to the sender, with the tenant's routing
\* key and access token, and after it exactly one assistant row was inserted
\* with the reply, the citations (an empty list if none) and the conversation
\* marker of the user row.
C15_ReplyDispatchedThenStored ==
    \A g \in 1..Len(gatewayCalls) :
        LET call == gatewayCalls[g]
            sent == UnitDispatches(call.d, call.e, call.c, call.acct, call.i)
            evs  == UnitEvents(call.d, call.e, call.c, call.acct, "msg", call.i)
            acct == AccountById(call.acct)
            rows == SelectSeq(messages, LAMBDA r :
                        /\ r.type = "assistant"
                        /\ r.unique_conv_id = call.uniqueClientId
                        /\ r.content = GatewayReply)
        IN  /\ call.outcome = "ok"
            /\ faults = 0
            /\ UnitFinished(call.d, call.e, call.c, call.acct, call.i)
            => /\ Len(sent) = 1
               /\ sent[1].message = GatewayReply
               /\ sent[1].to = call.phoneNumber
               /\ sent[1].phoneNumberId = acct.phone_number_id
               /\ sent[1].accessToken = acct.access_token
               /\ CountOp(evs, "insertAssistant") = 1
               /\ \E k, l \in 1..Len(evs) :
                    /\ k < l
                    /\ evs[k].op = "dispatch"
                    /\ evs[l].op = "insertAssistant"
               /\ rows # <<>>
               /\ \A k \in 1..Len(rows) :
                    /\ rows[k].chatbot_id = acct.chatbot_id
                    /\ rows[k].citations =
                        JsonStringify(CitationsOrEmpty(
                            GatewayCitations(acct.chatbot_id)))

(***************************************************************************)
(* Properties of processIncomingMessage: which messages go on (SpecTypes)  *)
(***************************************************************************)

\* The message a call record or an event was made for.
MsgOf(x) == ChangeAt(x.d, x.e, x.c).value.messages[x.i]

\* The units of delivery d: a tenant resolved for a change and the index of
\* one of its messages.
Units(d) ==
    UNION { { [e |-> ec[1], c |-> ec[2], acct |-> id, i |-> i] :
                id \in ExpectedTenants(
                          ChangeAt(d, ec[1], ec[2]).value.phone_number_id),
                i \in 1..Len(ChangeAt(d, ec[1], ec[2]).value.messages) } :
            ec \in MessageChanges(d) }

\* The ops logged for a unit, in order.
UnitOps(d, u) ==
    LET evs == UnitEvents(d, u.e, u.c, u.acct, "msg", u.i) IN
    [k \in 1..Len(evs) |-> evs[k].op]

\* C16: no Response Gateway call and no dispatch is ever made for a message
\* whose type is not text, button or interactive; when the task is done such
\* a message was handled (once per tenant) without either.
C16_OtherTypesNeverReplied ==
    /\ \A g \in 1..Len(gatewayCalls) :
            MsgOf(gatewayCalls[g]).type \in { "text", "button", "interactive" }
    /\ \A k \in 1..Len(dispatches) :
            MsgOf(dispatches[k]).type \in { "text", "button", "interactive" }
    /\ \A d \in deliveries :
        task[d].pc = "done" =>
            \A u \in Units(d) :
                LET m == ChangeAt(d, u.e, u.c).value.messages[u.i] IN
                m.type \notin { "text", "button", "interactive" } =>
                    LET ops == UnitOps(d, u) IN
                    /\ ops # <<>> /\ ops[1] = "begin"
                    /\ \A k \in 1..Len(ops) :
                            ops[k] \notin { "gateway", "dispatch" }

C16_Witness ==
    \E d \in deliveries :
        /\ task[d].pc = "done"
        /\ faults = 0
        /\ ChangeAt(d, 1, 1).value.messages[1].type = "sticker"
        /\ Len(ChangeAt(d, 1, 1).value.messages) = 2
        /\ Len(gatewayCalls) >= 1
        /\ \A g \in 1..Len(gatewayCalls) : gatewayCalls[g].i = 2
        /\ \A k \in 1..Len(dispatches) : dispatches[k].i = 2

\* C17: when the task is done and no collaborator failure was injected, a
\* message of a type other than text, button or interactive has been
\* persisted for each tenant: a contact row of the sender exists and a user
\* row holds the projected text.
C17_OtherTypesPersisted ==
    \A d \in deliveries :
        task[d].pc = "done" /\ faults = 0 =>
            \A u \in Units(d) :
                LET m   == ChangeAt(d, u.e, u.c).value.messages[u.i]
                    bot == AccountById(u.acct).chatbot_id
                IN  m.type \notin { "text", "button", "interactive" } =>
                    /\ \E k \in 1..Len(contacts) :
                        /\ contacts[k].chatbot_id = bot
                        /\ contacts[k].phone_number = m.from
                    /\ \E k \in 1..Len(messages) :
                        /\ messages[k].type = "user"
                        /\ messages[k].chatbot_id = bot
                        /\ messages[k].content = MessageContent(m)
                        /\ messages[k].meta.waMessageId = m.id

\* C18: a message whose projected text is empty has no effect: nothing but
\* its arrival is logged for it, no contact or message row is written for
\* it, and no gateway call or dispatch is made for it.
C18_EmptyTextNoEffect ==
    /\ \A k \in 1..Len(effects) :
        /\ effects[k].phase = "msg"
        /\ MessageContent(MsgOf(effects[k])) = ""
        => effects[k].op = "begin"
    /\ \A g \in 1..Len(gatewayCalls) :
            MessageContent(MsgOf(gatewayCalls[g])) # ""
    /\ \A k \in 1..Len(dispatches) :
            MessageContent(MsgOf(dispatches[k])) # ""
    /\ \A k \in 1..Len(messages) : messages[k].content # ""
    /\ \A d \in deliveries :
        LET ms == ChangeAt(d, 1, 1).value.messages IN
        /\ task[d].pc = "done"
        /\ \A i \in 1..Len(ms) : MessageContent(ms[i]) = ""
        => contacts = <<>> /\ messages = <<>>

C18_Witness ==
    \E d \in deliveries :
        /\ task[d].pc = "done"
        /\ faults = 0
        /\ ChangeAt(d, 1, 1).value.messages[1].type = "interactive"
        /\ ChangeAt(d, 1, 1).value.messages[1].sub = "nfm_reply"
        /\ ChangeAt(d, 1, 1).value.messages[1].arg = "hi"
        /\ Len(ChangeAt(d, 1, 1).value.messages) = 2
        /\ \E k \in 1..Len(effects) :
            effects[k].i = 1 /\ effects[k].op = "begin"
        /\ Len(messages) >= 1
        /\ \A k \in 1..Len(messages) : messages[k].meta.waMessageId # "wamid.in1"
        /\ \A g \in 1..Len(gatewayCalls) : gatewayCalls[g].i = 2

StatusEvents(d, e, c, acct, i) == UnitEvents(d, e, c, acct, "status", i)

\* C20: processMessageStatus never rejects the task: a failed UPDATE is
\* logged and processing goes on; a row is marked with a status only by an
\* UPDATE that succeeded for a status naming its provider message id, so an
\* UPDATE for an id no row holds changes nothing; when the task is done every
\* status of every tenant was handled once, and the request was acknowledged
\* with 200.
C20_StatusNeverRaises ==
    /\ \A d \in deliveries :
        task[d].pc = "failed" /\ effects # <<>>
            => effects[Len(effects)].phase # "status"
    /\ \A k \in 1..Len(effects) :
        effects[k].phase = "status" => postResp[effects[k].d] = Ack
    /\ \A k \in 1..Len(messages) :
        messages[k].meta.status # Undefined =>
            \E n \in 1..Len(effects) :
                /\ effects[n].op = "updateStatus"
                /\ LET st == ChangeAt(effects[n].d, effects[n].e,
                                      effects[n].c).value.statuses[effects[n].i]
                   IN  /\ st.id = messages[k].meta.waMessageId
                       /\ st.status = messages[k].meta.status
    /\ \A d \in deliveries :
        task[d].pc = "done" /\ dbUrl =>
            \A ec \in MessageChanges(d) :
                LET ch == ChangeAt(d, ec[1], ec[2]) IN
                \A id \in ExpectedTenants(ch.value.phone_number_id) :
                \A i \in 1..Len(ch.value.statuses) :
                    LET evs == StatusEvents(d, ec[1], ec[2], id, i) IN
                    /\ Len(evs) = 1
                    /\ evs[1].op \in { "updateStatus", "error" }

C20_Witness ==
    \E d \in deliveries :
        /\ task[d].pc = "done"
        /\ postResp[d] = Ack
        /\ \E u, k, n, p \in 1..Len(effects) :
            /\ u < k /\ k < n /\ n < p
            /\ effects[u].op = "insertUser" /\ effects[u].acct = "acct3"
            /\ effects[k].phase = "status" /\ effects[k].op = "error"
            /\ effects[k].acct = "acct3"
            /\ \A q \in 1..k : effects[q].op # "insertAssistant"
            /\ effects[n].phase = "status" /\ effects[n].op = "error"
            /\ effects[n].acct = "acct1"
            /\ effects[p].phase = "status" /\ effects[p].op = "error"
            /\ effects[p].acct = "acct2"
        /\ \E k \in 1..Len(messages) :
            /\ messages[k].chatbot_id = "bot3"
            /\ messages[k].meta.waMessageId # "wamid.reply"
            /\ messages[k].meta.status = Undefined

(***************************************************************************)
(* Properties of the conversation store (SpecConv)                         *)
(***************************************************************************)

\* The upserts done so far for the contact of (chatbotId, from), in order.
Upserts(chatbotId, from) ==
    SelectSeq(effects, LAMBDA ev :
        /\ ev.op \in { "insertContact", "updateContact" }
        /\ AccountById(ev.acct).chatbot_id = chatbotId
        /\ MsgOf(ev).from = from)

\* C21: upsertContact is idempotent on (botId, phoneNumber): whatever the
\* number of inbound messages of one number handled for one bot, one contact
\* row exists for the pair, every inbound row of the pair carries the id of
\* that row, and the row's last-seen value is the timestamp of the last
\* message upserted.
C21_UpsertContactIdempotent ==
    /\ \A k, l \in 1..Len(contacts) :
        /\ contacts[k].chatbot_id = contacts[l].chatbot_id
        /\ contacts[k].phone_number = contacts[l].phone_number
        => k = l
    /\ \A k \in 1..Len(contacts) :
        LET ups == Upserts(contacts[k].chatbot_id, contacts[k].phone_number)
        IN  ups # <<>> =>
                contacts[k].meta.last_seen_at =
                    DateOf(MsgOf(ups[Len(ups)]).timestamp)
    /\ \A bot \in { "bot1", "bot2", "bot3" }, from \in { "u1", "u2" } :
        Upserts(bot, from) # <<>> =>
            \E k \in 1..Len(contacts) :
                /\ contacts[k].chatbot_id = bot
                /\ contacts[k].phone_number = from
    /\ \A r \in 1..Len(messages) :
        messages[r].type = "user" =>
            \E k \in 1..Len(contacts) :
                /\ contacts[k].chatbot_id = messages[r].chatbot_id
                /\ contacts[k].phone_number = messages[r].meta.phoneNumber
                /\ contacts[k].id = messages[r].meta.contactId

C21_Witness ==
    \E d \in deliveries :
        /\ task[d].pc = "done"
        /\ Len(Upserts("bot1", "u1")) = 3
        /\ Upserts("bot1", "u1")[1].op = "insertContact"
        /\ Upserts("bot1", "u1")[3].op = "updateContact"
        /\ Len(SelectSeq(contacts, LAMBDA c :
                c.chatbot_id = "bot1" /\ c.phone_number = "u1")) = 1
        /\ \E k \in 1..Len(contacts) :
            /\ contacts[k].chatbot_id = "bot1"
            /\ contacts[k].phone_number = "u1"
            /\ contacts[k].meta.first_seen_at = 100
            /\ contacts[k].meta.last_seen_at = 90
        /\ Len(SelectSeq(messages, LAMBDA r :
                /\ r.type = "user" /\ r.chatbot_id = "bot1"
                /\ r.meta.phoneNumber = "u1")) = 3

\* The inbound row written for message m and tenant acct.
InboundRows(acct, m) ==
    SelectSeq(messages, LAMBDA r :
        /\ r.type = "user"
        /\ r.chatbot_id = acct.chatbot_id
        /\ r.meta.waMessageId = m.id)

\* C22: the conversation marker is 'whatsapp_' + phoneNumber + '_' + botId:
\* rows of one number and one bot carry one marker, rows of one number and
\* two bots carry two, and for one message and tenant the marker on the
\* inbound row is the one the history is read with, the one sent to the
\* gateway and the one on the assistant row.
C22_ConversationMarker ==
    /\ \A k \in 1..Len(messages) :
        messages[k].unique_conv_id =
            "whatsapp_" \o messages[k].meta.phoneNumber \o "_"
                \o messages[k].chatbot_id
    /\ \A k, l \in 1..Len(messages) :
        messages[k].meta.phoneNumber = messages[l].meta.phoneNumber =>
            (messages[k].unique_conv_id = messages[l].unique_conv_id
                <=> messages[k].chatbot_id = messages[l].chatbot_id)
    /\ \A d \in deliveries :
        task[d].pc = "gateway" =>
            LET in == InboundRows(Account(d), Msg(d)) IN
            /\ Len(in) = 1
            /\ task[d].loc.history =
                    History(Account(d).chatbot_id, in[1].unique_conv_id)
    /\ \A k \in 1..Len(gatewayCalls) :
        LET g  == gatewayCalls[k]
            in == InboundRows(AccountById(g.acct), MsgOf(g))
        IN  Len(in) = 1 /\ g.uniqueClientId = in[1].unique_conv_id
    /\ effects # <<>> /\ effects[Len(effects)].op = "insertAssistant" =>
        LET ev == effects[Len(effects)]
            in == InboundRows(AccountById(ev.acct), MsgOf(ev))
        IN  /\ Len(in) = 1
            /\ messages[Len(messages)].type = "assistant"
            /\ messages[Len(messages)].unique_conv_id = in[1].unique_conv_id

C22_Witness ==
    \E d \in deliveries :
        /\ task[d].pc = "done"
        /\ \E k, l, a \in 1..Len(messages) :
            /\ messages[k].type = "user" /\ messages[k].chatbot_id = "bot1"
            /\ messages[k].unique_conv_id = "whatsapp_u1_bot1"
            /\ messages[a].type = "assistant"
            /\ messages[a].unique_conv_id = "whatsapp_u1_bot1"
            /\ messages[l].type = "user" /\ messages[l].chatbot_id = "bot2"
            /\ messages[l].meta.waMessageId = messages[k].meta.waMessageId
            /\ messages[l].unique_conv_id = "whatsapp_u1_bot2"
        /\ \E g \in 1..Len(gatewayCalls) :
            /\ gatewayCalls[g].uniqueClientId = "whatsapp_u1_bot2"
            /\ gatewayCalls[g].query # <<>>

\* The rows of the conversation of message m and tenant acct.
ConversationRows(acct, m) ==
    SelectSeq(messages, LAMBDA r :
        /\ r.chatbot_id = acct.chatbot_id
        /\ r.meta.phoneNumber = m.from)

\* The rows of a conversation a history entry may come from.
RowsOfEntry(rows, entry) ==
    { k \in 1..Len(rows) :
        /\ rows[k].content = entry.content
        /\ entry.role = IF rows[k].type = "user" THEN "user" ELSE "assistant" }

\* C23: the history read for a conversation has at most 10 entries, however
\* many rows the conversation holds; every entry is a row of the
\* conversation with role 'user' for an inbound row and 'assistant' for
\* another, and the entries are in ascending order of creation time.
C23_HistoryBoundedAscending ==
    \A d \in deliveries :
        task[d].pc = "gateway" =>
            LET h    == task[d].loc.history
                rows == ConversationRows(Account(d), Msg(d))
            IN  /\ Len(h) <= 10
                /\ Len(rows) <= 10 => Len(h) = Len(rows)
                /\ Len(rows) > 10 => Len(h) = 10
                /\ \A k \in 1..Len(h) : RowsOfEntry(rows, h[k]) # {}
                /\ \A k \in 1..(Len(h) - 1) :
                    \E x \in RowsOfEntry(rows, h[k]),
                       y \in RowsOfEntry(rows, h[k + 1]) :
                        /\ x # y
                        /\ rows[x].created_at <= rows[y].created_at

C23_Witness ==
    \E d \in deliveries :
        /\ task[d].pc = "gateway"
        /\ Len(ConversationRows(Account(d), Msg(d))) = MaxSeed + 1
        /\ Len(task[d].loc.history) = 10
        /\ task[d].loc.history[1] = [role |-> "assistant", content |-> "r2"]
        /\ task[d].loc.history[2] = [role |-> "user", content |-> "m1"]
        /\ task[d].loc.history[10] = [role |-> "user", content |-> "m9"]

(***************************************************************************)
(* Properties of what the end user and the provider see (Spec)             *)
(***************************************************************************)

\* Two dispatches for one message of one tenant.
SameUnit(x, y) ==
    /\ x.d = y.d /\ x.e = y.e /\ x.c = y.c /\ x.acct = y.acct /\ x.i = y.i

\* C24: every text dispatched is the reply of the Response Gateway or one of
\* the two fixed apologies, and for one message of one tenant the user gets
\* the reply or an apology, never both, also when persistence fails after the
\* reply was dispatched.
C24_ReplyOrApologyNeverBoth ==
    /\ \A k \in 1..Len(dispatches) :
        dispatches[k].message \in { GatewayReply, ApologyGateway, ApologyCatch }
    /\ \A k, l \in 1..Len(dispatches) :
        SameUnit(dispatches[k], dispatches[l]) =>
            ~(/\ dispatches[k].message = GatewayReply
              /\ dispatches[l].message \in { ApologyGateway, ApologyCatch })

\* C25: a response to GET /webhook has status 200 or 403 and a response to
\* POST /webhook has status 200 or 401; once sent it is never changed,
\* whatever fails in the background task (a query, the gateway, a send, the
\* task itself being rejected).
C25_OnlyDocumentedStatuses ==
    [][/\ \A g \in GetIds : getResp'[g].status \in { 0, 200, 403 }
       /\ \A d \in deliveries :
            /\ postResp'[d].status \in { 0, 200, 401 }
            /\ postResp[d].status # 0 => postResp'[d] = postResp[d]
            /\ task'[d].pc # "none" => postResp'[d].status \in { 200, 401 }]_vars

C25_Witness ==
    \E d \in deliveries :
        /\ task[d].pc \in { "done", "failed" }
        /\ postResp[d].status = 200
        /\ \E k \in 1..Len(effects) : effects[k].op = "error"
        /\ \/ task[d].pc = "failed"
           \/ \E k \in 1..Len(dispatches) : ~dispatches[k].ok

\* C26: a POST /webhook whose envelope has the WhatsApp object tag and no
\* entry list is answered with a 4xx status.
C26_MalformedEnvelopeRejected ==
    \A d \in deliveries :
        /\ postResp[d].status # 0
        /\ postReq[d].payload.object = WhatsAppObject
        /\ ~postReq[d].payload.hasEntry
        => postResp[d].status \in 400..499

(***************************************************************************)
(* Properties of a send that never returns (SpecTwo)                       *)
(***************************************************************************)

\* Any step of delivery d: its request handler or a step of its task.
TaskStep(d) ==
    \/ PostWebhook(d) \/ GetDbClient(d) \/ LookupAccounts(d) \/ MsgBegin(d)
    \/ SelectContact(d) \/ UpsertContact(d) \/ InsertUserMessage(d)
    \/ SelectChatbot(d) \/ SelectHistory(d) \/ CallGateway(d) \/ SendReply(d)
    \/ InsertAssistant(d) \/ SendApology(d) \/ SendHangs(d)
    \/ ProcessStatus(d)

Hung(d) == task[d].pc = "hung"

\* The request was answered and its task, if any, has come to its end.
Over(d) == task[d].pc \in { "done", "failed", "rejected", "ignored" }

\* Every message of every tenant of delivery d has been taken up.
AllUnitsBegun(d) == \A u \in Units(d) : UnitOps(d, u) # <<>>

\* C27 as stated: while a send of delivery d hangs, d was acknowledged,
\* every other delivery can go on, and so can the tenants of d that were not
\* handled yet.
C27_AsStated ==
    \A d \in deliveries :
        Hung(d) =>
            /\ postResp[d] = Ack
            /\ \A other \in deliveries \ { d } :
                ~Over(other) /\ ~Hung(other) => ENABLED TaskStep(other)
            /\ AllUnitsBegun(d) \/ ENABLED TaskStep(d)

\* C27: while a send of delivery d hangs, d was acknowledged before and
\* every other delivery can be answered and processed; the task of d itself
\* does nothing more, so the messages, statuses and tenants of d that come
\* after the hanging send wait for it.
C27_HungSendHoldsItsOwnTask ==
    \A d \in deliveries :
        Hung(d) =>
            /\ postResp[d] = Ack
            /\ \A other \in deliveries \ { d } :
                ~Over(other) /\ ~Hung(other) => ENABLED TaskStep(other)
            /\ ~ENABLED TaskStep(d)

C27_Witness ==
    /\ Hung(1)
    /\ task[2].pc = "done"
    /\ postResp[2] = Ack
    /\ \E k, l \in 1..Len(dispatches) :
        /\ dispatches[k].d = 2 /\ dispatches[k].acct = "acct1"
        /\ dispatches[l].d = 2 /\ dispatches[l].acct = "acct2"
        /\ dispatches[k].message = GatewayReply
        /\ dispatches[l].message = GatewayReply
    /\ \E k \in 1..Len(effects) :
        effects[k].d = 2 /\ effects[k].phase = "status"

(***************************************************************************)
(* Properties of the mode without a database (Spec)                        *)
(***************************************************************************)

\* The events logged for message i of change (e, c) of delivery d.
MessageEvents(d, e, c, i) ==
    SelectSeq(effects, LAMBDA ev :
        ev.d = d /\ ev.e = e /\ ev.c = c /\ ev.i = i)

\* C28: without a database every effect is processIncomingMessageSimple
\* called for the one tenant made from the environment; nothing is written,
\* no Response Gateway call and no dispatch is made, no status is processed;
\* and when the task has ended every message of every change of field
\* 'messages' was handled once, whatever the routing key of the change, and
\* nothing else was.
C28_SingleTenantFallback ==
    ~dbUrl =>
        /\ contacts = <<>> /\ messages = <<>>
        /\ gatewayCalls = <<>> /\ dispatches = <<>>
        /\ \A k \in 1..Len(effects) :
            /\ effects[k].acct = "env-account"
            /\ effects[k].op = "simple"
            /\ effects[k].phase = "msg"
        /\ \A d \in deliveries :
            task[d].pc \in { "done", "failed" } =>
                LET p == postReq[d].payload IN
                /\ \A e \in 1..Len(p.entry) :
                   \A c \in 1..Len(p.entry[e].changes) :
                        LET ch == p.entry[e].changes[c] IN
                        \A i \in 1..Len(ch.value.messages) :
                            Len(MessageEvents(d, e, c, i)) =
                                IF ch.field = "messages" THEN 1 ELSE 0
                /\ Len(effects) =
                    SeqSum(Flatten([e \in 1..Len(p.entry) |->
                        [c \in 1..Len(p.entry[e].changes) |->
                            IF p.entry[e].changes[c].field = "messages"
                            THEN Len(p.entry[e].changes[c].value.messages)
                            ELSE 0]]))

(***************************************************************************)
(* Properties of the Response Gateway call (Spec)                          *)
(***************************************************************************)

\* C29: within a delivery at most one Response Gateway call is made for one
\* message and one tenant, whatever its outcome: after a call that failed
\* (success:false, a timeout, an error) no other call follows for that
\* message and tenant.
C29_GatewayCalledAtMostOnce ==
    /\ \A k, l \in 1..Len(gatewayCalls) :
        SameUnit(gatewayCalls[k], gatewayCalls[l]) => k = l
    /\ LET calls == SelectSeq(effects, LAMBDA ev : ev.op = "gateway") IN
        \A k, l \in 1..Len(calls) :
            /\ calls[k].d = calls[l].d /\ calls[k].e = calls[l].e
            /\ calls[k].c = calls[l].c /\ calls[k].acct = calls[l].acct
            /\ calls[k].i = calls[l].i
            => k = l

C29_Witness ==
    \E d \in deliveries :
        /\ task[d].pc = "done"
        /\ \E k, l \in 1..Len(gatewayCalls) :
            /\ gatewayCalls[k].acct = "acct1"
            /\ gatewayCalls[k].outcome = "soft"
            /\ gatewayCalls[l].acct = "acct2"
            /\ gatewayCalls[l].outcome = "ok"
            /\ gatewayCalls[k].i = gatewayCalls[l].i
        /\ Len(gatewayCalls) = 2
        /\ \E k \in 1..Len(dispatches) :
            dispatches[k].acct = "acct1" /\ dispatches[k].message = ApologyGateway

(***************************************************************************)
(* Properties of changes that are skipped (Spec)                           *)
(***************************************************************************)

\* Every change of delivery d, as <<entry, change>>.
AllChanges(d) ==
    UNION { { <<e, c>> : c \in 1..Len(postReq[d].payload.entry[e].changes) } :
                e \in 1..Len(postReq[d].payload.entry) }

\* The change has no routing key, or no active tenant holds its key.
Skipped(d, ec) ==
    LET key == ChangeAt(d, ec[1], ec[2]).value.phone_number_id IN
    ~Truthy(key) \/ ExpectedTenants(key) = {}

Later(x, y) == x[1] < y[1] \/ (x[1] = y[1] /\ x[2] < y[2])

\* C30: with a database, a change that has no routing key, or whose key no
\* active tenant holds, causes no write, no Response Gateway call and no
\* dispatch (at most the tenant lookup); every row of the store comes from a
\* logged insert; and when the task is done, every message of every tenant
\* of every later change of field 'messages' was taken up.
C30_SkippedChangeDoesNotStopOthers ==
    dbUrl =>
        /\ \A k \in 1..Len(effects) :
            LET ev == effects[k] IN
            IF ev.phase = "lookup"
            THEN Truthy(ChangeAt(ev.d, ev.e, ev.c).value.phone_number_id)
            ELSE ~Skipped(ev.d, <<ev.e, ev.c>>)
        /\ \A k \in 1..Len(gatewayCalls) :
            ~Skipped(gatewayCalls[k].d, <<gatewayCalls[k].e, gatewayCalls[k].c>>)
        /\ \A k \in 1..Len(dispatches) :
            ~Skipped(dispatches[k].d, <<dispatches[k].e, dispatches[k].c>>)
        /\ Len(contacts) = CountOp(effects, "insertContact")
        /\ Len(messages) = CountOp(effects, "insertUser")
                            + CountOp(effects, "insertAssistant")
        /\ \A d \in deliveries :
            task[d].pc = "done" =>
                \A x \in AllChanges(d), y \in AllChanges(d) :
                    /\ Skipped(d, x) /\ Later(x, y) /\ ~Skipped(d, y)
                    /\ ChangeAt(d, y[1], y[2]).field = "messages"
                    => \A id \in ExpectedTenants(
                            ChangeAt(d, y[1], y[2]).value.phone_number_id) :
                       \A i \in 1..Len(ChangeAt(d, y[1], y[2]).value.messages) :
                            CountOp(UnitEvents(d, y[1], y[2], id, "msg", i),
                                    "begin") = 1

C30_Witness ==
    \E d \in deliveries :
        /\ dbUrl
        /\ task[d].pc = "done"
        /\ Len(postReq[d].payload.entry) = 1
        /\ Len(postReq[d].payload.entry[1].changes) = 2
        /\ ChangeAt(d, 1, 1).value.phone_number_id = "pnX"
        /\ Skipped(d, <<1, 1>>)
        /\ \E k \in 1..Len(effects) :
            effects[k].c = 1 /\ effects[k].op = "lookup"
        /\ \E k \in 1..Len(effects) :
            effects[k].c = 2 /\ effects[k].op = "insertUser"
        /\ \A k \in 1..Len(dispatches) : dispatches[k].c = 2
        /\ dispatches # <<>>

(***************************************************************************)
(* Properties of processMessageStatus on a store with rows (SpecStatus)    *)
(***************************************************************************)

\* The rows whose metadata references the provider message id.
Referencing(rows, messageId) ==
    { k \in 1..Len(rows) : rows[k].meta.waMessageId = messageId }

\* The most recently created of the rows ks: the greatest created_at, the
\* later row of the table among equals.
MostRecent(rows, ks) ==
    CHOOSE k \in ks :
        \A j \in ks : \/ rows[j].created_at < rows[k].created_at
                      \/ rows[j].created_at = rows[k].created_at /\ j <= k

\* The step of delivery d that handled a status event and in which no
\* collaborator failed.
StatusHandled(d) ==
    /\ d \in deliveries
    /\ task[d].pc = "status"
    /\ task'[d] # task[d]
    /\ faults' = faults

\* The status event a step of the status loop handles.
StatusStep(d) ==
    /\ d \in deliveries
    /\ task[d].pc = "status"
    /\ task'[d] # task[d]
    /\ Len(effects') = Len(effects) + 1
    /\ effects'[Len(effects')].op = "updateStatus"

\* C31: a status update for a provider message id changes exactly one row,
\* the most recently created row whose metadata references the id, and of
\* that row only the status key of the metadata; every other row, older rows
\* and rows of other tenants that reference the same id included, is
\* unchanged.
C31_StatusUpdateChangesOneRow ==
    [][ \A d \in deliveries :
            StatusHandled(d) =>
                LET id == Status(d).id
                    ks == Referencing(messages, id)
                IN  /\ Len(messages') = Len(messages)
                    /\ ks = {} => messages' = messages
                    /\ ks # {} =>
                        LET k == MostRecent(messages, ks) IN
                        messages' = [messages EXCEPT
                                        ![k].meta.status = Status(d).status]
      ]_vars

(***************************************************************************)
(* Properties of the stored rows (SpecStatus)                              *)
(***************************************************************************)

\* The step of delivery d that ran the UPDATE of the contact it had found.
ContactUpdateStep(d) ==
    /\ d \in deliveries
    /\ task[d].pc = "upsertContact"
    /\ task[d].loc.found
    /\ Len(effects') = Len(effects) + 1
    /\ effects'[Len(effects')].op = "updateContact"

\* The metadata keys seeded at creation that an update leaves alone.
SeededKeys(meta) ==
    [wa_id |-> meta.wa_id, first_seen_at |-> meta.first_seen_at,
     last_inbound_message_id |-> meta.last_inbound_message_id,
     phone_number_id |-> meta.phone_number_id, source |-> meta.source,
     opt_in_status |-> meta.opt_in_status]

\* C32: the upsert of a contact that exists inserts no row and changes, of
\* the row it found, only the display name and the last-seen key of the
\* metadata (set to the name and the timestamp of the message): the id, the
\* bot, the number and every other metadata key of that row, every other
\* contact row and every message row stay as they were, and the id the
\* handling goes on with is the existing one.
C32_UpsertExistingTouchesNameAndLastSeen ==
    [][ \A d \in deliveries :
            ContactUpdateStep(d) =>
                /\ Len(contacts') = Len(contacts)
                /\ messages' = messages
                /\ task'[d].loc.contactId = task[d].loc.contactId
                /\ \A k \in 1..Len(contacts) :
                    IF contacts[k].id = task[d].loc.contactId
                    THEN /\ contacts'[k].id = contacts[k].id
                         /\ contacts'[k].chatbot_id = contacts[k].chatbot_id
                         /\ contacts'[k].phone_number = contacts[k].phone_number
                         /\ SeededKeys(contacts'[k].meta)
                                = SeededKeys(contacts[k].meta)
                         /\ DOMAIN contacts'[k].meta = DOMAIN contacts[k].meta
                         /\ contacts'[k].display_name =
                                CustomerName(Change(d).value.contacts,
                                             Msg(d).from)
                         /\ contacts'[k].meta.last_seen_at =
                                DateOf(Msg(d).timestamp)
                    ELSE contacts'[k] = contacts[k]
      ]_vars

C32_Witness ==
    /\ \E k \in 1..Len(effects) : effects[k].op = "updateContact"
    /\ Len(contacts) = 1
    /\ contacts[1].id = 1
    /\ contacts[1].display_name = "Ann"
    /\ contacts[1].meta.last_seen_at = 100
    /\ contacts[1].meta.first_seen_at = 50
    /\ contacts[1].meta.last_inbound_message_id = "wamid.in0"

\* The columns of a message row that no statement rewrites.
FixedColumns(row) ==
    [chatbot_id |-> row.chatbot_id, channel |-> row.channel,
     type |-> row.type, content |-> row.content,
     citations |-> row.citations, unique_conv_id |-> row.unique_conv_id,
     created_at |-> row.created_at]

\* C33: the message rows are append-only: no step removes a row or moves
\* one, no step changes the bot id, the direction, the content, the
\* citations or the conversation marker of a row, and the metadata of a row
\* changes only in a step that handles a delivery-status event naming the
\* provider message id the row references.
C33_MessagesAppendOnly ==
    [][ /\ Len(messages') >= Len(messages)
        /\ \A k \in 1..Len(messages) :
            /\ FixedColumns(messages'[k]) = FixedColumns(messages[k])
            /\ messages'[k].meta # messages[k].meta =>
                \E d \in deliveries :
                    /\ StatusStep(d)
                    /\ messages[k].meta.waMessageId = Status(d).id
                    /\ messages'[k].meta =
                        [messages[k].meta EXCEPT !.status = Status(d).status]
      ]_vars

C33_Witness ==
    /\ task[1].pc = "done"
    /\ Len(messages) = 3
    /\ messages[1].content = "hey" /\ messages[1].type = "user"
    /\ messages[2] = StatusSeedPair(1, 60, "wamid.out1")[2]
    /\ messages[3].content = "hello" /\ messages[3].type = "user"
    /\ \E k \in 1..Len(effects) :
        /\ effects[k].phase = "status"
        /\ ChangeAt(1, 1, 1).value.statuses[effects[k].i].id = "wamid.out1"

(***************************************************************************)
(* Properties of sendWhatsAppMessage (Spec)                                *)
(***************************************************************************)

\* The step of delivery d that awaited a send.
SendStep(d) ==
    /\ d \in deliveries
    /\ task[d].pc \in { "sendReply", "apologyGw", "apologyCatch" }
    /\ task'[d] # task[d]

\* C34: a send never raises.  The step that awaits one logs a dispatch (or
\* never returns), never an error; it does not reject the task and does not
\* enter the catch block; after an apology, sent or not, the handling of the
\* message is over and the task is at the message, status or tenant that
\* comes next.
C34_SendNeverRaises ==
    [][ \A d \in deliveries :
            SendStep(d) =>
                /\ task'[d].pc \notin { "failed", "apologyCatch", "apologyGw" }
                /\ Len(effects') = Len(effects) + 1
                /\ effects'[Len(effects')].op \in { "dispatch", "hang" }
                /\ effects'[Len(effects')].op = "dispatch" =>
                    /\ Len(dispatches') = Len(dispatches) + 1
                    /\ dispatches'[Len(dispatches')].ok \in BOOLEAN
                    /\ task[d].pc = "sendReply" =>
                            task'[d].pc = "insertAssistant"
                    /\ task[d].pc # "sendReply" =>
                            task'[d] = Returned(Payload(d), task[d])
      ]_vars

C34_Witness ==
    \E d \in deliveries :
        /\ task[d].pc = "done"
        /\ \E k \in 1..Len(dispatches) :
            /\ ~dispatches[k].ok
            /\ dispatches[k].message = ApologyCatch
            /\ dispatches[k].acct = "acct1"
        /\ \E k \in 1..Len(dispatches) :
            /\ dispatches[k].ok
            /\ dispatches[k].acct = "acct2"
            /\ dispatches[k].message \notin { ApologyCatch, ApologyGateway }

(***************************************************************************)
(* Properties of the request to the Response Gateway (SpecConv)            *)
(***************************************************************************)

\* The last n entries of a sequence.
LastN(s, n) == IF Len(s) <= n THEN s ELSE SubSeq(s, Len(s) - n + 1, Len(s))

\* Every row of a conversation as a history entry, in creation order.
ConversationInOrder(chatbotId, convId) ==
    LET sorted == SortByCreatedAt(SelectSeq(messages, LAMBDA r :
                    /\ r.chatbot_id = chatbotId
                    /\ r.unique_conv_id = convId
                    /\ r.channel = "WHATSAPP"))
    IN  [k \in 1..Len(sorted) |->
            [role |-> IF sorted[k].type = "user" THEN "user" ELSE "assistant",
             content |-> sorted[k].content]]

\* C35: the history read for an inbound message and sent to the Response
\* Gateway ends with that message and is made of the most recent rows of the
\* conversation (the last ten in creation order when it holds more), also
\* when the conversation already held ten rows or more.
C35_HistoryEndsWithCurrentMessage ==
    \A d \in deliveries :
        task[d].pc = "gateway" =>
            LET h   == task[d].loc.history
                all == ConversationInOrder(Account(d).chatbot_id,
                            UniqueConvId(Msg(d).from, Account(d).chatbot_id))
            IN  /\ h # <<>>
                /\ h[Len(h)] = [role |-> "user",
                                content |-> MessageContent(Msg(d))]
                /\ h = LastN(all, HistoryLimit)

(***************************************************************************)
(* Properties of two tasks that upsert one contact (SpecRace)              *)
(***************************************************************************)

\* The user rows stored for provider message id of bot chatbotId.
UserRowsOf(chatbotId, id) ==
    { k \in 1..Len(messages) :
        /\ messages[k].type = "user"
        /\ messages[k].chatbot_id = chatbotId
        /\ messages[k].meta.waMessageId = id }

\* C36: whatever the interleaving of two tasks that each handle a first
\* message of one number for one bot, no (bot id, phone number) pair ever
\* has two contact rows, and when both tasks are done and no collaborator
\* failed, both inbound messages are stored as user rows.
C36_RaceKeepsContactAndMessages ==
    /\ \A k, l \in 1..Len(contacts) :
        /\ contacts[k].chatbot_id = contacts[l].chatbot_id
        /\ contacts[k].phone_number = contacts[l].phone_number
        => k = l
    /\ (\A d \in deliveries : task[d].pc = "done") /\ faults = 0 =>
        /\ UserRowsOf("bot3", "wamid.in1") # {}
        /\ UserRowsOf("bot3", "wamid.in2") # {}

(***************************************************************************)
(* Properties of a reply the provider did not accept (Spec)                *)
(***************************************************************************)

\* The ids `ai_${Date.now()}` can have taken so far.
SyntheticIds == { "ai_" \o ToString(c) : c \in ClockStart..clock }

\* C37: when the Response Gateway answered and the send of the reply failed,
\* no apology is dispatched for the message, and once the handling of the
\* message is over an assistant row with the reply text is stored for the
\* bot and the number, carrying a synthetic 'ai_<time>' id where the provider
\* message id would be.
C37_UnsentReplyStillStored ==
    \A k \in 1..Len(dispatches) :
        LET x   == dispatches[k]
            u   == [e |-> x.e, c |-> x.c, acct |-> x.acct, i |-> x.i]
            ops == UnitOps(x.d, u)
        IN  /\ ~x.ok
            /\ x.message \notin { ApologyGateway, ApologyCatch }
            => /\ \A l \in 1..Len(dispatches) :
                    SameUnit(x, dispatches[l]) => l = k
               /\ UnitFinished(x.d, x.e, x.c, x.acct, x.i) =>
                    /\ ops[Len(ops)] = "insertAssistant"
                    /\ \E r \in 1..Len(messages) :
                        /\ messages[r].type = "assistant"
                        /\ messages[r].chatbot_id
                                = AccountById(x.acct).chatbot_id
                        /\ messages[r].content = x.message
                        /\ messages[r].meta.phoneNumber = x.to
                        /\ messages[r].meta.waMessageId \in SyntheticIds

(***************************************************************************)
(* Properties of a tenant lookup that fails (Spec)                         *)
(***************************************************************************)

\* The events of delivery d, in order.
EventsOf(d) == SelectSeq(effects, LAMBDA ev : ev.d = d)

\* C38: when the tenant lookup of a change fails, handleWebhookMessage ends
\* there: the failed lookup is the last thing the task of the delivery did,
\* the task is rejected (and the rejection caught by the request handler),
\* nothing is read, written, asked or dispatched for that change or a later
\* change or entry, what earlier changes wrote stays, and the response is
\* the 200 acknowledgment sent before.
C38_LookupFailureEndsTheTask ==
    \A d \in deliveries :
        LET evs == EventsOf(d) IN
        \A k \in 1..Len(evs) :
            evs[k].phase = "lookup" /\ evs[k].op = "error" =>
                /\ k = Len(evs)
                /\ task[d].pc = "failed"
                /\ postResp[d] = Ack
                /\ \A j \in 1..(k - 1) :
                    Later(<<evs[j].e, evs[j].c>>, <<evs[k].e, evs[k].c>>)
                /\ \A g \in 1..Len(gatewayCalls) :
                    gatewayCalls[g].d = d =>
                        Later(<<gatewayCalls[g].e, gatewayCalls[g].c>>,
                              <<evs[k].e, evs[k].c>>)
                /\ \A g \in 1..Len(dispatches) :
                    dispatches[g].d = d =>
                        Later(<<dispatches[g].e, dispatches[g].c>>,
                              <<evs[k].e, evs[k].c>>)
                /\ Len(messages) = CountOp(effects, "insertUser")
                                    + CountOp(effects, "insertAssistant")

C38_Witness ==
    \E d \in deliveries :
        /\ task[d].pc = "failed"
        /\ postResp[d] = Ack
        /\ Len(postReq[d].payload.entry) = 3
        /\ Len(ChangeAt(d, 3, 1).value.messages) = 1
        /\ ExpectedTenants("pn1") # {}
        /\ effects[Len(effects)].op = "error"
        /\ effects[Len(effects)].phase = "lookup"
        /\ effects[Len(effects)].e = 2
        /\ messages = <<>>
        /\ dispatches = <<>>

(***************************************************************************)
(* Properties of requests the signature check does not apply to (Spec)     *)
(***************************************************************************)

\* The request carries a signature header with a value.
Signed(r) == r.signature.present /\ r.signature.chars # <<>>

\* C39: the signature check applies only to a request with a signature
\* header when the secret is configured.  A request answered 401 has both;
\* a request without the header (whatever the secret) and a request with a
\* header while no secret is configured are never answered 401: they get the
\* answer a verified request gets, the acknowledgment and a background task
\* for a WhatsApp envelope, the 'not a WhatsApp event' answer for another.
C39_CheckNeedsHeaderAndSecret ==
    \A d \in deliveries :
        postResp[d].status # 0 =>
            LET r == postReq[d] IN
            /\ postResp[d].status = 401 => Signed(r) /\ r.appSecret # <<>>
            /\ ~Signed(r) \/ r.appSecret = <<>> =>
                IF r.payload.object = WhatsAppObject
                THEN postResp[d] = Ack /\ Spawned(d)
                ELSE /\ postResp[d].status = 200
                     /\ postResp[d].text = "Not a WhatsApp webhook event"
                     /\ ~Spawned(d)

C39_Witness ==
    \E d \in deliveries :
        /\ ~postReq[d].signature.present
        /\ postReq[d].appSecret = PostSecret
        /\ postResp[d] = Ack
        /\ task[d].pc = "done"
        /\ \E k \in 1..Len(messages) :
            messages[k].type = "user" /\ messages[k].chatbot_id = "bot1"

\* The first ten rows, in creation order, of the rows of table that belong
\* to the bot and the number, as history entries.
OwnHistory(table, chatbotId, from) ==
    LET sorted == SortByCreatedAt(SelectSeq(table, LAMBDA r :
                    /\ r.chatbot_id = chatbotId
                    /\ r.meta.phoneNumber = from))
        n      == IF Len(sorted) < HistoryLimit THEN Len(sorted) ELSE HistoryLimit
    IN  [k \in 1..n |->
            [role |-> IF sorted[k].type = "user" THEN "user" ELSE "assistant",
             content |-> sorted[k].content]]

\* The message rows without those of bot chatbotId.
WithoutRowsOf(chatbotId) ==
    SelectSeq(messages, LAMBDA r : r.chatbot_id # chatbotId)

\* C40: the request to the Response Gateway made for a tenant carries that
\* tenant's data only.  Its bot id, marker and API key are those of the
\* tenant's bot; the history it is about to send is made of rows of that bot
\* and that number, and it is the same whatever any other bot has stored:
\* taking the rows of another bot out of the store does not change it.
C40_GatewayRequestScopedToTenant ==
    /\ \A g \in 1..Len(gatewayCalls) :
        LET x   == gatewayCalls[g]
            bot == AccountById(x.acct).chatbot_id
        IN  /\ x.chatbotId = bot
            /\ x.uniqueClientId = UniqueConvId(x.phoneNumber, bot)
            /\ ChatbotRows(bot) # <<>>
            /\ x.converslyWebId = ChatbotRows(bot)[1].api_key
            /\ \A k \in 1..Len(x.query) :
                \E r \in 1..Len(messages) :
                    /\ messages[r].chatbot_id = bot
                    /\ messages[r].meta.phoneNumber = x.phoneNumber
                    /\ messages[r].content = x.query[k].content
    /\ \A d \in deliveries :
        task[d].pc = "gateway" =>
            LET bot == Account(d).chatbot_id IN
            /\ task[d].loc.apiKey = ChatbotRows(bot)[1].api_key
            /\ task[d].loc.history = OwnHistory(messages, bot, Msg(d).from)
            /\ \A other \in { chatbots[k].id : k \in 1..Len(chatbots) } \ { bot } :
                task[d].loc.history
                    = OwnHistory(WithoutRowsOf(other), bot, Msg(d).from)

C40_Witness ==
    \E d \in deliveries :
        /\ task[d].pc = "gateway"
        /\ Account(d).id = "acct2"
        /\ task[d].i = 1
        /\ Cardinality({ k \in 1..Len(messages) :
                /\ messages[k].chatbot_id = "bot1"
                /\ messages[k].meta.phoneNumber = "u1" }) >= 4
        /\ task[d].loc.history = <<[role |-> "user", content |-> "hello"]>>
        /\ task[d].loc.apiKey = "key2"

====
